---- MODULE Spec2Model ----
(***************************************************************************)
(* SurfeSpotVelger: the surf-condition scoring engine and the session API. *)
(*                                                                         *)
(* Units.  Python floats are modelled on integer grids:                    *)
(*   wave height      decimetres      (0.8 m  -> 8,  2.0 m -> 20)          *)
(*   wave period      seconds                                              *)
(*   wind speed       m/s                                                  *)
(*   angles           degrees                                              *)
(*   coarse score     tenths of a point (0.5 -> 5, 10.0 -> 100)            *)
(*   swell component  wave height (dm) x cosine (thousandths)              *)
(* An optional value (Python None or a number) is the empty set or a       *)
(* singleton: None is {}, the number 15 is {15}.                           *)
(* A call's outcome is a record: the exception raised ("none" when the     *)
(* call returns) and the returned value (a singleton, {} when raised).     *)
(***************************************************************************)
EXTENDS Integers, Sequences, FiniteSets, TLC

VARIABLES
    wave_height,        \* argument / ConditionSample field
    wave_period,
    wave_direction,
    wind_speed,
    wind_direction,
    spot_orientation,
    args,               \* further arguments of the function applied
    fn,                 \* the function applied last ("" before any call)
    ret,                \* its outcome
    spots,              \* table surf_spots: set of rows
    sessions,           \* table surf_sessions: set of rows
    next_spot_id,       \* autoincrement counters of the two tables
    next_session_id,
    response,           \* status of the last HTTP request handled
    requests,           \* the requests being handled: what each has read so far
    recommenders        \* SurfRecommender instances opened and not yet closed

vars == << wave_height, wave_period, wave_direction, wind_speed, wind_direction,
           spot_orientation, args, fn, ret, spots, sessions, next_spot_id,
           next_session_id, response, requests, recommenders >>

sampleVars == << wave_height, wave_period, wave_direction, wind_speed,
                 wind_direction, spot_orientation >>
argVars == << wave_height, wave_period, wave_direction, wind_speed,
              wind_direction, spot_orientation, args >>
dbVars == << spots, sessions, next_spot_id, next_session_id, response >>
runVars == << requests, recommenders >>

----------------------------------------------------------------------------
(* Bounds of the model *)

\* grid step of the angles drawn, in degrees
AngleStep == 15
\* angles are drawn from [-360*MaxTurns, 360*(MaxTurns+1))
MaxTurns == 1
\* the extreme wave height (dm), wave period (s) and wind speed (m/s) drawn,
\* with both signs
MaxHeight == 500
MaxPeriod == 100
MaxWind == 200
\* rows the tables may hold
MaxSpots == 2
MaxSessions == 1

----------------------------------------------------------------------------
(* Python values *)

None == {}
Some(x) == {x}
IsNone(v) == v = {}
Val(v) == CHOOSE x \in v : TRUE

Return(x) == [exc |-> "none", value |-> {x}]
Raise(e) == [exc |-> e, value |-> {}]
NoCall == [exc |-> "none", value |-> {}]
\* no further arguments
NoArgs == << >>

\* no request is being handled and no recommender is open
NoRuns ==
    /\ requests = << >>
    /\ recommenders = 0

Abs(x) == IF x < 0 THEN -x ELSE x
Min(a, b) == IF a <= b THEN a ELSE b

\* math.cos(math.radians(d)) for whole degrees 0..90, in thousandths
CosTable ==
   << 1000, 1000, 999, 999, 998, 996, 995, 993, 990, 988, 985, 982, 978,
      974, 970, 966, 961, 956, 951, 946, 940, 934, 927, 921, 914, 906,
      899, 891, 883, 875, 866, 857, 848, 839, 829, 819, 809, 799, 788,
      777, 766, 755, 743, 731, 719, 707, 695, 682, 669, 656, 643, 629,
      616, 602, 588, 574, 559, 545, 530, 515, 500, 485, 469, 454, 438,
      423, 407, 391, 375, 358, 342, 326, 309, 292, 276, 259, 242, 225,
      208, 191, 174, 156, 139, 122, 105, 87, 70, 52, 35, 17, 0 >>

\* math.cos(math.radians(d)) for any whole number of degrees, in thousandths:
\* cosine is even, has period 360 and cos(180 - x) = -cos(x)
Cos(d) ==
    LET a == Abs(d) % 360
        b == IF a > 180 THEN 360 - a ELSE a
    IN  IF b <= 90 THEN CosTable[b + 1] ELSE -CosTable[180 - b + 1]

----------------------------------------------------------------------------
(* Geometry utilities *)

\* angle_diff = abs(a - b); if angle_diff > 180: angle_diff = 360 - angle_diff
NoFoldAngleDiff(a, b) == Abs(a - b)
angle_diff(a, b) ==
    LET d == Abs(a - b) IN IF d > 180 THEN 360 - d ELSE d

\* hybrid_surf_service.calculate_wind_offshore
calculate_wind_offshore(wind_dir, orientation) ==
    IF IsNone(wind_dir) \/ IsNone(orientation)
    THEN FALSE
    ELSE angle_diff(Val(wind_dir), Val(orientation)) <= 90

\* stormglass_service.calculate_wind_offshore
stormglass_calculate_wind_offshore(wind_dir, orientation) ==
    IF IsNone(wind_dir) \/ IsNone(orientation)
    THEN FALSE
    ELSE LET d == Abs(Val(wind_dir) - Val(orientation))
             f == IF d > 180 THEN 360 - d ELSE d
         IN  f <= 90

\* openweather_service.calculate_wind_offshore
openweather_calculate_wind_offshore(wind_dir, orientation) ==
    IF IsNone(wind_dir) \/ IsNone(orientation)
    THEN FALSE
    ELSE LET d == Abs(Val(wind_dir) - Val(orientation))
             f == IF d > 180 THEN 360 - d ELSE d
         IN  f <= 90

\* weather_service_fixed.calculate_wind_offshore
weather_fixed_calculate_wind_offshore(wind_dir, orientation) ==
    IF IsNone(wind_dir) \/ IsNone(orientation)
    THEN FALSE
    ELSE LET d == Abs(Val(wind_dir) - Val(orientation))
             f == IF d > 180 THEN 360 - d ELSE d
         IN  f <= 90

\* SurfModelTrainer._calculate_offshore_wind: no None check, so
\* abs(None - x) raises TypeError
SurfModelTrainer_calculate_offshore_wind(wind_dir, orientation) ==
    IF IsNone(wind_dir) \/ IsNone(orientation)
    THEN Raise("TypeError")
    ELSE LET d == Abs(Val(wind_dir) - Val(orientation))
             f == IF d > 180 THEN 360 - d ELSE d
         IN  Return(f <= 90)

\* hybrid_surf_service.calculate_swell_component
SwellNoOrientationCheck(height, wave_dir, orientation) ==
    IF IsNone(height) \/ IsNone(wave_dir)
    THEN Return(0)
    ELSE IF IsNone(orientation)
    THEN Raise("TypeError")
    ELSE Return(Val(height) * Cos(angle_diff(Val(wave_dir), Val(orientation))))
calculate_swell_component(height, wave_dir, orientation) ==
    IF IsNone(height) \/ IsNone(wave_dir) \/ IsNone(orientation)
    THEN Return(0)
    ELSE Return(Val(height) * Cos(angle_diff(Val(wave_dir), Val(orientation))))

----------------------------------------------------------------------------
(* Condition scorer, coarse model *)

\* wave_height_score
WaveHeightScoreExclusive(h) ==
    IF 8 < h /\ h < 20 THEN 30
    ELSE IF 5 <= h /\ h < 8 THEN 20
    ELSE IF 20 < h /\ h <= 30 THEN 20
    ELSE 5
WaveHeightScore(h) ==
    IF 8 <= h /\ h <= 20 THEN 30
    ELSE IF 5 <= h /\ h < 8 THEN 20
    ELSE IF 20 < h /\ h <= 30 THEN 20
    ELSE 5

\* wave_period_score
WavePeriodScore(p) ==
    IF 8 <= p /\ p <= 15 THEN 30
    ELSE IF 6 <= p /\ p < 8 THEN 20
    ELSE IF 15 < p /\ p <= 20 THEN 20
    ELSE 10

\* wind_score
WindScoreStrongAt15(is_offshore, speed) ==
    IF is_offshore /\ speed <= 8 THEN 40
    ELSE IF ~is_offshore /\ speed <= 5 THEN 20
    ELSE IF speed >= 15 THEN 0
    ELSE 10
WindScore(is_offshore, speed) ==
    IF is_offshore /\ speed <= 8 THEN 40
    ELSE IF ~is_offshore /\ speed <= 5 THEN 20
    ELSE IF speed > 15 THEN 0
    ELSE 10

\* hybrid_surf_service.calculate_surf_score
ScoreNoOrientationCheck(height, period, speed, wind_dir, orientation) ==
    IF IsNone(height) \/ IsNone(period) \/ IsNone(speed) \/ IsNone(wind_dir)
    THEN Return(0)
    ELSE Return(Min(WaveHeightScore(Val(height)) + WavePeriodScore(Val(period))
                    + WindScore(calculate_wind_offshore(wind_dir, orientation),
                                Val(speed)), 100))
ScoreFailFast(height, period, speed, wind_dir, orientation) ==
    IF IsNone(height) \/ IsNone(period) \/ IsNone(speed) \/ IsNone(wind_dir)
       \/ IsNone(orientation)
    THEN Return(0)
    ELSE IF Val(height) < 0 \/ Val(speed) < 0
    THEN Raise("ValueError")
    ELSE Return(Min(WaveHeightScore(Val(height)) + WavePeriodScore(Val(period))
                    + WindScore(calculate_wind_offshore(wind_dir, orientation),
                                Val(speed)), 100))
calculate_surf_score(height, period, speed, wind_dir, orientation) ==
    IF IsNone(height) \/ IsNone(period) \/ IsNone(speed) \/ IsNone(wind_dir)
       \/ IsNone(orientation)
    THEN Return(0)
    ELSE Return(Min(WaveHeightScore(Val(height)) + WavePeriodScore(Val(period))
                    + WindScore(calculate_wind_offshore(wind_dir, orientation),
                                Val(speed)), 100))

\* stormglass_service.calculate_surf_score
stormglass_calculate_surf_score(height, period, speed, wind_dir, orientation) ==
    IF IsNone(height) \/ IsNone(period) \/ IsNone(speed) \/ IsNone(wind_dir)
       \/ IsNone(orientation)
    THEN Return(0)
    ELSE LET h == Val(height)
             p == Val(period)
             s == Val(speed)
             wave_height_score ==
                 IF 8 <= h /\ h <= 20 THEN 30
                 ELSE IF 5 <= h /\ h < 8 THEN 20
                 ELSE IF 20 < h /\ h <= 30 THEN 20
                 ELSE 5
             wave_period_score ==
                 IF 8 <= p /\ p <= 15 THEN 30
                 ELSE IF 6 <= p /\ p < 8 THEN 20
                 ELSE IF 15 < p /\ p <= 20 THEN 20
                 ELSE 10
             is_offshore == stormglass_calculate_wind_offshore(wind_dir, orientation)
             wind_score ==
                 IF is_offshore /\ s <= 8 THEN 40
                 ELSE IF ~is_offshore /\ s <= 5 THEN 20
                 ELSE IF s > 15 THEN 0
                 ELSE 10
         IN  Return(Min(wave_height_score + wave_period_score + wind_score, 100))

----------------------------------------------------------------------------
(* Inputs drawn *)

Range(lo, hi, step) == { lo + step * k : k \in 0..((hi - lo) \div step) }

\* angles of [0, 360) on the grid, and the same angles up to MaxTurns full
\* turns below and above
InRangeAngles == Range(0, 359, AngleStep)
AllAngles == { a + 360 * t : a \in InRangeAngles, t \in (-MaxTurns)..MaxTurns }

\* the four quarter directions, in range and up to MaxTurns turns off
QuarterAngles == { 90 * q + 360 * t : q \in 0..3, t \in (-MaxTurns)..MaxTurns }

Opt(S) == {None} \cup { Some(x) : x \in S }

\* every bucket boundary of the coarse scorer, its neighbours, the two
\* scenario values and the extremes
HeightInputs == Opt({-MaxHeight, 4, 5, 7, 8, 15, 20, 21, 30, 31, MaxHeight})
PeriodInputs == Opt({-MaxPeriod, 5, 6, 7, 8, 10, 15, 16, 20, 21, MaxPeriod})
WindInputs == Opt({-MaxWind, 5, 6, 8, 9, 15, 16, MaxWind})
ScoreWindDirs == Opt(QuarterAngles)
ScoreOrientations == Opt({0, 270, 270 + 360 * MaxTurns, 270 - 360 * MaxTurns})

NoDb ==
    /\ spots = {}
    /\ sessions = {}
    /\ next_spot_id = 1
    /\ next_session_id = 1
    /\ response = 0

----------------------------------------------------------------------------
(* The coarse scorer applied to drawn arguments *)

InitScore ==
    /\ wave_height \in HeightInputs
    /\ wave_period \in PeriodInputs
    /\ wind_speed \in WindInputs
    /\ wind_direction \in ScoreWindDirs
    /\ spot_orientation \in ScoreOrientations
    /\ wave_direction = None
    /\ args = NoArgs
    /\ fn = ""
    /\ ret = NoCall
    /\ NoRuns
    /\ NoDb

CallCalculateSurfScore ==
    /\ fn' = "calculate_surf_score"
    /\ ret' = calculate_surf_score(wave_height, wave_period, wind_speed,
                                   wind_direction, spot_orientation)
    /\ UNCHANGED << argVars, dbVars, runVars >>

CallStormglassCalculateSurfScore ==
    /\ fn' = "stormglass_calculate_surf_score"
    /\ ret' = stormglass_calculate_surf_score(wave_height, wave_period, wind_speed,
                                              wind_direction, spot_orientation)
    /\ UNCHANGED << argVars, dbVars, runVars >>

NextScore ==
    \/ CallCalculateSurfScore
    \/ CallStormglassCalculateSurfScore

SpecScore == InitScore /\ [][NextScore]_vars

ScoreFns == {"calculate_surf_score", "stormglass_calculate_surf_score"}

ScoreArgs == << wave_height, wave_period, wind_speed, wind_direction,
                spot_orientation >>
AbsentArgs == { i \in 1..5 : IsNone(ScoreArgs[i]) }

\* C1: with exactly one of the five arguments absent (any position) and the
\* other four present, the coarse scorer returns exactly 0.0 and does not raise.
C1_OneAbsentScoresZero ==
    (fn \in ScoreFns /\ Cardinality(AbsentArgs) = 1) => ret = Return(0)

C1_Witness ==
    /\ fn = "calculate_surf_score"
    /\ AbsentArgs = {5}
    /\ ret = Return(0)

\* C2: for all present inputs the coarse score is min(H + P + W, 10) with the
\* three bucketed sub-scores of the specification, every boundary inclusive
\* as written.
C2_ScoreIsBucketSum ==
    (fn = "calculate_surf_score" /\ AbsentArgs = {}) =>
        LET h == Val(wave_height)
            p == Val(wave_period)
            s == Val(wind_speed)
            offshore == calculate_wind_offshore(wind_direction, spot_orientation)
            H == IF h >= 8 /\ h <= 20 THEN 30
                 ELSE IF (h >= 5 /\ h < 8) \/ (h > 20 /\ h <= 30) THEN 20
                 ELSE 5
            P == IF p >= 8 /\ p <= 15 THEN 30
                 ELSE IF (p >= 6 /\ p < 8) \/ (p > 15 /\ p <= 20) THEN 20
                 ELSE 10
            W == IF offshore /\ s <= 8 THEN 40
                 ELSE IF ~offshore /\ s <= 5 THEN 20
                 ELSE IF s > 15 THEN 0
                 ELSE 10
        IN  ret = Return(Min(H + P + W, 100))

C2_Witness ==
    /\ fn = "calculate_surf_score"
    /\ wave_height = Some(20)
    /\ wave_period = Some(15)
    /\ wind_speed = Some(8)
    /\ wind_direction = Some(180)
    /\ spot_orientation = Some(270)
    /\ ret = Return(100)

\* C3: whatever the inputs (absent, negative, huge, angles outside [0,360)),
\* the coarse scorer returns a score in [0, 10] and does not raise.
C3_ScoreBounded ==
    fn \in ScoreFns =>
        /\ ret.exc = "none"
        /\ ret.value # {}
        /\ Val(ret.value) >= 0
        /\ Val(ret.value) <= 100

C3_Witness ==
    /\ fn = "calculate_surf_score"
    /\ wave_height = Some(-MaxHeight)
    /\ wave_period = Some(MaxPeriod)
    /\ wind_speed = Some(-MaxWind)
    /\ wind_direction = Some(360 + 90)
    /\ spot_orientation = Some(270 - 360)
    /\ ret.exc = "none"
    /\ Val(ret.value) \in 0..100

\* the two end-to-end scenarios of the specification
Scenario(speed, dir) ==
    /\ fn = "calculate_surf_score"
    /\ wave_height = Some(15)
    /\ wave_period = Some(10)
    /\ wind_speed = Some(speed)
    /\ wind_direction = Some(dir)
    /\ spot_orientation = Some(270)

\* C4: orientation 270, 1.5 m, 10 s, wind 6 m/s from 90: the wind is offshore,
\* the wind sub-score is 4.0 and the coarse score is 10.0.
C4_OffshoreScenarioScoresTen ==
    Scenario(6, 90) =>
        /\ calculate_wind_offshore(wind_direction, spot_orientation)
        /\ WindScore(calculate_wind_offshore(wind_direction, spot_orientation),
                     Val(wind_speed)) = 40
        /\ ret = Return(100)

----------------------------------------------------------------------------
(* The offshore test, in each of its implementations, applied to drawn angles *)

InitOffshore ==
    /\ wind_direction \in Opt(AllAngles)
    /\ spot_orientation \in Opt(AllAngles)
    /\ wave_height = None
    /\ wave_period = None
    /\ wave_direction = None
    /\ wind_speed = None
    /\ args = NoArgs
    /\ fn = ""
    /\ ret = NoCall
    /\ NoRuns
    /\ NoDb

\* the angular difference both callers inline, on two numbers
CallAngleDiff ==
    /\ ~IsNone(wind_direction)
    /\ ~IsNone(spot_orientation)
    /\ fn' = "angle_diff"
    /\ ret' = Return(angle_diff(Val(wind_direction), Val(spot_orientation)))
    /\ UNCHANGED << argVars, dbVars, runVars >>

CallCalculateWindOffshore ==
    /\ fn' = "calculate_wind_offshore"
    /\ ret' = Return(calculate_wind_offshore(wind_direction, spot_orientation))
    /\ UNCHANGED << argVars, dbVars, runVars >>

CallStormglassCalculateWindOffshore ==
    /\ fn' = "stormglass_calculate_wind_offshore"
    /\ ret' = Return(stormglass_calculate_wind_offshore(wind_direction,
                                                        spot_orientation))
    /\ UNCHANGED << argVars, dbVars, runVars >>

CallOpenweatherCalculateWindOffshore ==
    /\ fn' = "openweather_calculate_wind_offshore"
    /\ ret' = Return(openweather_calculate_wind_offshore(wind_direction,
                                                         spot_orientation))
    /\ UNCHANGED << argVars, dbVars, runVars >>

CallWeatherFixedCalculateWindOffshore ==
    /\ fn' = "weather_fixed_calculate_wind_offshore"
    /\ ret' = Return(weather_fixed_calculate_wind_offshore(wind_direction,
                                                           spot_orientation))
    /\ UNCHANGED << argVars, dbVars, runVars >>

CallTrainerCalculateOffshoreWind ==
    /\ fn' = "SurfModelTrainer._calculate_offshore_wind"
    /\ ret' = SurfModelTrainer_calculate_offshore_wind(wind_direction,
                                                       spot_orientation)
    /\ UNCHANGED << argVars, dbVars, runVars >>

NextOffshore ==
    \/ CallAngleDiff
    \/ CallCalculateWindOffshore
    \/ CallStormglassCalculateWindOffshore
    \/ CallOpenweatherCalculateWindOffshore
    \/ CallWeatherFixedCalculateWindOffshore
    \/ CallTrainerCalculateOffshoreWind

SpecOffshore == InitOffshore /\ [][NextOffshore]_vars

OffshoreFns == {"calculate_wind_offshore", "stormglass_calculate_wind_offshore",
                "openweather_calculate_wind_offshore",
                "weather_fixed_calculate_wind_offshore",
                "SurfModelTrainer._calculate_offshore_wind"}

InRange(v) == ~IsNone(v) /\ Val(v) >= 0 /\ Val(v) < 360

\* C6: for a, b in [0, 360) the angular difference lies in [0, 180] and is
\* the same with its two arguments exchanged.
C6_AngleDiffSymmetricFolded ==
    (fn = "angle_diff" /\ InRange(wind_direction) /\ InRange(spot_orientation)) =>
        /\ Val(ret.value) >= 0
        /\ Val(ret.value) <= 180
        /\ ret = Return(angle_diff(Val(spot_orientation), Val(wind_direction)))

C6_Witness ==
    /\ fn = "angle_diff"
    /\ wind_direction = Some(345)
    /\ spot_orientation = Some(0)
    /\ ret = Return(15)

\* C7: for d, o in [0, 360), isOffshore(d, o) and isOffshore(d + 360, o)
\* return the same boolean.
C7_OffshoreWrapInvariant ==
    (InRange(wind_direction) /\ InRange(spot_orientation)) =>
        /\ fn = "calculate_wind_offshore" =>
              ret = Return(calculate_wind_offshore(Some(Val(wind_direction) + 360),
                                                   spot_orientation))
        /\ fn = "openweather_calculate_wind_offshore" =>
              ret = Return(openweather_calculate_wind_offshore(
                               Some(Val(wind_direction) + 360), spot_orientation))

\* C8: every implementation of the offshore test returns true exactly when
\* the angular difference of its two inputs is <= 90, and returns false
\* without raising when either input is absent.
C8_EveryOffshoreImplTotal ==
    fn \in OffshoreFns =>
        IF IsNone(wind_direction) \/ IsNone(spot_orientation)
        THEN ret = Return(FALSE)
        ELSE LET d == Abs(Val(wind_direction) - Val(spot_orientation))
                 angularDifference == IF d > 180 THEN 360 - d ELSE d
             IN  ret = Return(angularDifference <= 90)

----------------------------------------------------------------------------
(* The swell component applied to drawn arguments *)

SwellHeights == Opt({-5, 0, 15, 20})

InitSwell ==
    /\ wave_height \in SwellHeights
    /\ wave_direction \in Opt(AllAngles)
    /\ spot_orientation \in Opt(AllAngles)
    /\ wave_period = None
    /\ wind_speed = None
    /\ wind_direction = None
    /\ args = NoArgs
    /\ fn = ""
    /\ ret = NoCall
    /\ NoRuns
    /\ NoDb

CallCalculateSwellComponent ==
    /\ fn' = "calculate_swell_component"
    /\ ret' = calculate_swell_component(wave_height, wave_direction,
                                        spot_orientation)
    /\ UNCHANGED << argVars, dbVars, runVars >>

NextSwell == CallCalculateSwellComponent

SpecSwell == InitSwell /\ [][NextSwell]_vars

\* C9: the swell component is h when wave direction and spot orientation are
\* equal, -h when they are 180 degrees apart, and 0.0 when any of the three
\* inputs is absent (h in decimetres, the result in thousandths of that).
C9_SwellAlignedOpposedAbsent ==
    fn = "calculate_swell_component" =>
        IF IsNone(wave_height) \/ IsNone(wave_direction) \/ IsNone(spot_orientation)
        THEN ret = Return(0)
        ELSE /\ wave_direction = spot_orientation =>
                    ret = Return(1000 * Val(wave_height))
             /\ Abs(Val(wave_direction) - Val(spot_orientation)) = 180 =>
                    ret = Return(-1000 * Val(wave_height))

C9_Witness ==
    /\ fn = "calculate_swell_component"
    /\ wave_height = Some(20)
    /\ wave_direction = Some(90)
    /\ spot_orientation = Some(270)
    /\ ret = Return(-20000)

----------------------------------------------------------------------------
(* The session API of backend/main.py over the two tables.                 *)
(* A surf_spots row is [id, name, latitude, longitude, orientation,        *)
(* description]; a surf_sessions row holds the request's spot_id and       *)
(* rating, the provider's sample and the derived features.  The request    *)
(* fields and provider fields no derived feature reads (date_time, notes,  *)
(* board_type, temperatures, tide, ...) are left out of the rows.          *)

SpotNames == {"Bore", "Orre"}
Latitudes == {58}
Longitudes == {5}
\* SurfSpotCreate.description is Optional[str] with default ""
Descriptions == { Some("") }
\* SurfSpotCreate.orientation is any float: in range and whole turns off
OrientationInputs == {0, 270, 270 + 360 * MaxTurns, 270 - 360 * MaxTurns}
\* SurfSessionCreate.rating is any int: one either side of 1..5 and one within
Ratings == {0, 4, 6}
\* what the providers may report as sea_surface_wave_from_direction
ProviderWaveDirs == {90, 270, 90 + 360 * MaxTurns}

\* the sample get_complete_surf_data returns: every field optional
SurfData ==
    [ wave_height : Opt({15}),
      wave_period : Opt({10}),
      wave_direction : Opt(ProviderWaveDirs),
      wind_speed : Opt({6}),
      wind_direction : Opt({90}) ]

Init ==
    /\ spots = {}
    /\ sessions = {}
    /\ next_spot_id = 1
    /\ next_session_id = 1
    /\ response = 0
    /\ wave_height = None
    /\ wave_period = None
    /\ wave_direction = None
    /\ wind_speed = None
    /\ wind_direction = None
    /\ spot_orientation = None
    /\ args = NoArgs
    /\ fn = ""
    /\ ret = NoCall
    /\ NoRuns

\* POST /api/spots
create_spot(name, latitude, longitude, orientation, description) ==
    /\ next_spot_id <= MaxSpots
    /\ IF \E existing_spot \in spots : existing_spot.name = name
       THEN /\ response' = 400
            /\ UNCHANGED << spots, next_spot_id >>
       ELSE /\ spots' = spots \cup
                    { [ id |-> next_spot_id, name |-> name, latitude |-> latitude,
                        longitude |-> longitude, orientation |-> Some(orientation),
                        description |-> description ] }
            /\ next_spot_id' = next_spot_id + 1
            /\ response' = 200
    /\ UNCHANGED << sessions, next_session_id, argVars, fn, ret, runVars >>

\* angle_diff = abs(surf_data['wave_direction'] - spot.orientation), folded
SwellAngleDifference(wave_dir, orientation) ==
    LET d == Abs(wave_dir - orientation) IN IF d > 180 THEN 360 - d ELSE d

\* the row create_session builds from the request, the spot and the sample
SessionRow(id, spot, rating, surf_data) ==
    LET has_wind == ~IsNone(surf_data.wind_direction)
        has_swell == ~IsNone(surf_data.wave_direction)
                     /\ ~IsNone(surf_data.wave_height)
        has_all == /\ ~IsNone(surf_data.wave_height)
                   /\ ~IsNone(surf_data.wave_period)
                   /\ ~IsNone(surf_data.wind_speed)
                   /\ ~IsNone(surf_data.wind_direction)
    IN  [ id |-> id,
          spot_id |-> spot.id,
          rating |-> rating,
          wave_height |-> surf_data.wave_height,
          wave_period |-> surf_data.wave_period,
          wave_direction |-> surf_data.wave_direction,
          wind_speed |-> surf_data.wind_speed,
          wind_direction |-> surf_data.wind_direction,
          offshore_wind |->
              IF has_wind
              THEN Some(calculate_wind_offshore(surf_data.wind_direction,
                                                spot.orientation))
              ELSE None,
          swell_component |->
              IF has_swell
              THEN calculate_swell_component(surf_data.wave_height,
                                             surf_data.wave_direction,
                                             spot.orientation).value
              ELSE None,
          swell_angle_difference |->
              IF has_swell
              THEN Some(SwellAngleDifference(Val(surf_data.wave_direction),
                                             Val(spot.orientation)))
              ELSE None,
          surf_score |->
              IF has_all
              THEN calculate_surf_score(surf_data.wave_height, surf_data.wave_period,
                                        surf_data.wind_speed, surf_data.wind_direction,
                                        spot.orientation).value
              ELSE None ]

\* POST /api/sessions
create_session(spot_id, rating, surf_data) ==
    /\ next_session_id <= MaxSessions
    /\ IF ~\E spot \in spots : spot.id = spot_id
       THEN /\ response' = 404
            /\ UNCHANGED << sessions, next_session_id >>
       ELSE LET spot == CHOOSE sp \in spots : sp.id = spot_id
            IN  /\ sessions' = sessions \cup
                        { SessionRow(next_session_id, spot, rating, surf_data) }
                /\ next_session_id' = next_session_id + 1
                /\ response' = 200
    /\ UNCHANGED << spots, next_spot_id, argVars, fn, ret, runVars >>

CreateSpot ==
    \E name \in SpotNames, latitude \in Latitudes, longitude \in Longitudes,
       orientation \in OrientationInputs, description \in Descriptions :
        create_spot(name, latitude, longitude, orientation, description)

CreateSession ==
    \E spot_id \in 1..MaxSpots, rating \in Ratings, surf_data \in SurfData :
        create_session(spot_id, rating, surf_data)

Next ==
    \/ CreateSpot
    \/ CreateSession

Spec == Init /\ [][Next]_vars

\* C10: whatever wave direction the provider returns and whatever orientation
\* is stored, values outside [0, 360) included, the swell_angle_difference
\* stored on a session lies in [0, 180].
C10_StoredSwellAngleFolded ==
    \A session \in sessions :
        ~IsNone(session.swell_angle_difference) =>
            /\ Val(session.swell_angle_difference) >= 0
            /\ Val(session.swell_angle_difference) <= 180

\* C25: every row of surf_sessions that create_session has stored carries a
\* rating in 1..5, a request with a rating outside 1..5 having stored nothing.
C25_StoredRatingInRange ==
    \A session \in sessions : session.rating \in 1..5

----------------------------------------------------------------------------
(* The weighted recommender (ml/baseline_recommender.py)                    *)
(*                                                                          *)
(* Units of this part: wave height in centimetres, wind speed and wave      *)
(* period in tenths (of m/s, of a second), temperature in whole degrees     *)
(* Celsius, angles in degrees; a sub-score and the weighted score are in    *)
(* thousandths of a point (100.0 -> 100000).                                *)

Max(a, b) == IF a >= b THEN a ELSE b

\* the keys of self.spot_preferences in insertion order
\* (Hellesto and Sirevag stand for the names spelled with o-slash and a-ring)
SpotOrder == << "Bore", "Orre", "Hellesto", "Sola Strand", "Reve", "Sirevag" >>

Prefs(h, wave, wind, max_wind) ==
    [ optimal_wave_height |-> h, optimal_wave_direction |-> wave,
      optimal_wind_direction |-> wind, max_wind_speed |-> max_wind ]

\* self.spot_preferences
spot_preferences ==
    [ spot_name \in { SpotOrder[i] : i \in 1..Len(SpotOrder) } |->
        CASE spot_name = "Bore" ->
                Prefs(<< 80, 200 >>, << 240, 300 >>, << 60, 120 >>, 120)
          [] spot_name = "Orre" ->
                Prefs(<< 100, 300 >>, << 250, 310 >>, << 70, 130 >>, 150)
          [] spot_name = "Hellesto" ->
                Prefs(<< 50, 180 >>, << 220, 290 >>, << 40, 100 >>, 100)
          [] spot_name = "Sola Strand" ->
                Prefs(<< 60, 220 >>, << 240, 300 >>, << 50, 110 >>, 120)
          [] spot_name = "Reve" ->
                Prefs(<< 120, 400 >>, << 260, 320 >>, << 80, 140 >>, 180)
          [] spot_name = "Sirevag" ->
                Prefs(<< 80, 250 >>, << 280, 340 >>, << 90, 150 >>, 140) ]

\* self.rules
rules ==
    [ min_wave_height |-> 30, max_wave_height |-> 500,
      ideal_wind_speed |-> 80, max_wind_speed_general |-> 200,
      ideal_period_range |-> << 70, 140 >>,
      temperature_bonus_threshold |-> 15 ]

_score_wave_height(height, optimal_range) ==
    LET min_height == optimal_range[1]
        max_height == optimal_range[2]
    IN  IF height < rules.min_wave_height THEN 0
        ELSE IF height > rules.max_wave_height THEN 10000
        ELSE IF min_height <= height /\ height <= max_height THEN 100000
        ELSE IF height < min_height
             THEN Max(0, (70000 * height) \div min_height)
             ELSE Max(20000, 100000 - (height - max_height) * 300)

\* the distance the falloff of _score_wave_direction is computed from: round
\* the circle when the range wraps, along the number line when it does not
DirectionDistance(direction, optimal_range) ==
    LET min_dir == optimal_range[1]
        max_dir == optimal_range[2]
    IN  IF max_dir < min_dir
        THEN LET dist_to_min == Min(Abs(direction - min_dir),
                                    360 - Abs(direction - min_dir))
                 dist_to_max == Min(Abs(direction - max_dir),
                                    360 - Abs(direction - max_dir))
             IN  Min(dist_to_min, dist_to_max)
        ELSE Min(Abs(direction - min_dir), Abs(direction - max_dir))

\* the test of _score_wave_direction that returns 100.0
DirectionInside(direction, optimal_range) ==
    LET min_dir == optimal_range[1]
        max_dir == optimal_range[2]
    IN  IF max_dir < min_dir
        THEN direction >= min_dir \/ direction <= max_dir
        ELSE min_dir <= direction /\ direction <= max_dir

_score_wave_direction(direction, optimal_range) ==
    IF DirectionInside(direction, optimal_range)
    THEN 100000
    ELSE Max(0, 100000 - DirectionDistance(direction, optimal_range) * 2000)

\* the wind speed component of _score_wind
SpeedScoreIdealAtFallback(speed, prefs) ==
    IF speed > prefs.max_wind_speed
    THEN Max(0, 50000 - (speed - prefs.max_wind_speed) * 1000)
    ELSE Min(100000, 100000 - Abs(speed - 50) * 500)
SpeedScore(speed, prefs) ==
    IF speed > prefs.max_wind_speed
    THEN Max(0, 50000 - (speed - prefs.max_wind_speed) * 1000)
    ELSE Min(100000, 100000 - Abs(speed - rules.ideal_wind_speed) * 500)

WindWeightsExchanged(speed, direction, prefs) ==
    LET speed_score == SpeedScore(speed, prefs)
        direction_score ==
            _score_wave_direction(direction, prefs.optimal_wind_direction)
    IN  (speed_score * 300 + direction_score * 700) \div 1000
_score_wind(speed, direction, prefs) ==
    LET speed_score == SpeedScore(speed, prefs)
        direction_score ==
            _score_wave_direction(direction, prefs.optimal_wind_direction)
    IN  (speed_score * 700 + direction_score * 300) \div 1000

_score_period(period) ==
    LET min_period == rules.ideal_period_range[1]
        max_period == rules.ideal_period_range[2]
    IN  IF min_period <= period /\ period <= max_period THEN 100000
        ELSE IF period < min_period
             THEN Max(30000, 100000 - (min_period - period) * 1500)
             ELSE Max(60000, 100000 - (period - max_period) * 1000)

_score_temperature(temperature) ==
    IF temperature >= rules.temperature_bonus_threshold
    THEN 100000
    ELSE Max(0, temperature * 5000)

\* hour is datetime.now().hour
_score_time_of_day(hour) ==
    IF 6 <= hour /\ hour <= 9 THEN 100000
    ELSE IF 10 <= hour /\ hour <= 16 THEN 70000
    ELSE IF 17 <= hour /\ hour <= 19 THEN 85000
    ELSE 30000

\* A weather dict is a record over WeatherKeys; a key holds the empty sequence
\* when the dict lacks it and otherwise the one-element sequence of its value,
\* which is None or a number.
WeatherKeys ==
    { "wave_height", "wave_direction", "wind_speed", "wind_direction",
      "wave_period", "air_temperature" }
Missing == << >>
Present(v) == << v >>

\* weather.get(key, default)
WeatherGet(weather, key, default) ==
    IF weather[key] = Missing THEN Some(default) ELSE weather[key][1]

\* The first thing every sub-score does with its argument is an ordering
\* comparison with a number, which raises TypeError on None.
_calculate_spot_score(weather, hour, prefs) ==
    LET height == WeatherGet(weather, "wave_height", 50)
        direction == WeatherGet(weather, "wave_direction", 270)
        speed == WeatherGet(weather, "wind_speed", 50)
        wind_dir == WeatherGet(weather, "wind_direction", 90)
        period == WeatherGet(weather, "wave_period", 80)
        temperature == WeatherGet(weather, "air_temperature", 12)
    IN  IF \E v \in { height, direction, speed, wind_dir, period, temperature } :
               IsNone(v)
        THEN Raise("TypeError")
        ELSE LET wave_score ==
                     _score_wave_height(Val(height), prefs.optimal_wave_height)
                 direction_score ==
                     _score_wave_direction(Val(direction),
                                           prefs.optimal_wave_direction)
                 wind_score == _score_wind(Val(speed), Val(wind_dir), prefs)
                 period_score == _score_period(Val(period))
                 temp_score == _score_temperature(Val(temperature))
                 time_score == _score_time_of_day(hour)
                 score == (wave_score * 300 + direction_score * 250
                           + wind_score * 250 + period_score * 100
                           + temp_score * 50 + time_score * 50) \div 1000
             IN  Return(Min(score, 100000))

RatingFairFromForty(score) ==
    IF score >= 80000 THEN "Excellent"
    ELSE IF score >= 65000 THEN "Good"
    ELSE IF score >= 40000 THEN "Fair"
    ELSE IF score >= 35000 THEN "Poor"
    ELSE "Very Poor"
_score_to_rating(score) ==
    IF score >= 80000 THEN "Excellent"
    ELSE IF score >= 65000 THEN "Good"
    ELSE IF score >= 50000 THEN "Fair"
    ELSE IF score >= 35000 THEN "Poor"
    ELSE "Very Poor"

\* the phrases _generate_explanation joins with a bullet, in the order it
\* appends them (each without the number it formats in); called only after
\* _calculate_spot_score has returned, so no value it reads is None
_generate_explanation(weather, prefs) ==
    LET height == Val(WeatherGet(weather, "wave_height", 50))
        speed == Val(WeatherGet(weather, "wind_speed", 50))
        wind_dir == Val(WeatherGet(weather, "wind_direction", 90))
        period == Val(WeatherGet(weather, "wave_period", 80))
        min_h == prefs.optimal_wave_height[1]
        max_h == prefs.optimal_wave_height[2]
        optimal_wind == prefs.optimal_wind_direction
        is_offshore == optimal_wind[1] <= wind_dir /\ wind_dir <= optimal_wind[2]
    IN  << IF min_h <= height /\ height <= max_h THEN "Perfect wave size"
           ELSE IF height < min_h THEN "Waves a bit small"
           ELSE "Waves quite big",
           IF is_offshore /\ speed <= 100 THEN "Great offshore winds"
           ELSE IF is_offshore THEN "Offshore but strong winds"
           ELSE IF speed <= 50 THEN "Light onshore winds"
           ELSE "Strong onshore winds",
           IF period >= 100 THEN "Long period swell"
           ELSE IF period >= 70 THEN "Good period"
           ELSE "Short period waves" >>

\* a Python list: the function over 1..n given, as a sequence whose elements
\* are computed once
List(f) == f \o << >>

\* list.sort(key=..., reverse=True) on a list whose keys are the sequence
\* given: the index sequence of the result.  The sort is stable, reverse or
\* not: an element goes after every larger key and after the equal keys that
\* preceded it.
TiesReversedOrder(keys) ==
    LET n == Len(keys)
        pos(i) == 1 + Cardinality({ j \in 1..n : keys[j] > keys[i] })
                    + Cardinality({ j \in (i + 1)..n : keys[j] = keys[i] })
        place == List([ i \in 1..n |-> pos(i) ])
    IN  List([ p \in 1..n |-> CHOOSE i \in 1..n : place[i] = p ])
SortOrder(keys) ==
    LET n == Len(keys)
        pos(i) == 1 + Cardinality({ j \in 1..n : keys[j] > keys[i] })
                    + Cardinality({ j \in 1..(i - 1) : keys[j] = keys[i] })
        place == List([ i \in 1..n |-> pos(i) ])
    IN  List([ p \in 1..n |-> CHOOSE i \in 1..n : place[i] = p ])

\* the readings of datetime.now().hour made while one get_recommendations call
\* runs, one per profile, when the hour does not change during the call
ClockStill(hour) == List([ i \in 1..Len(SpotOrder) |-> hour ])

\* BaselineRecommender.get_recommendations; hours[i] is what datetime.now().hour
\* reads when the i-th profile is scored; conditions_summary, which formats
\* the values the score has already read, is left out of the entries
get_recommendations(weather_data, hours) ==
    LET n == Len(SpotOrder)
        score == List([ i \in 1..n |->
                     _calculate_spot_score(weather_data, hours[i],
                                           spot_preferences[SpotOrder[i]]) ])
    IN  IF \E i \in 1..n : score[i].exc # "none"
        THEN LET first == CHOOSE i \in 1..n :
                              /\ score[i].exc # "none"
                              /\ \A j \in 1..(i - 1) : score[j].exc = "none"
             IN  Raise(score[first].exc)
        ELSE LET recommendations == List(
                     [ i \in 1..n |->
                         [ spot |-> SpotOrder[i],
                           score |-> Val(score[i].value),
                           rating_prediction |->
                               _score_to_rating(Val(score[i].value)),
                           explanation |->
                               _generate_explanation(weather_data,
                                   spot_preferences[SpotOrder[i]]) ] ])
                 order ==
                     SortOrder(List([ i \in 1..n |-> recommendations[i].score ]))
             IN  Return(List([ p \in 1..n |-> recommendations[order[p]] ]))

----------------------------------------------------------------------------
(* The weighted recommender applied to drawn weather dicts *)

\* what a key of a drawn dict holds: nothing, None or one of the numbers
KeyInputs(S) == { Missing, Present(None) } \cup { Present(Some(x)) : x \in S }

WeatherInputs ==
    [ wave_height : KeyInputs({ -MaxHeight, 70, 140, MaxHeight + 100 }),
      wave_direction : KeyInputs({ 270, 270 - 360 * MaxTurns }),
      wind_speed : KeyInputs({ -10 * MaxWind, 80, 10 * MaxWind }),
      wind_direction : KeyInputs({ 90, 90 + 360 * MaxTurns }),
      wave_period : KeyInputs({ 30, 105 }),
      air_temperature : KeyInputs({ -10 }) ]

\* one hour of the night and one of the early morning
HourInputs == { 3, 8 }

SpotNamesBuiltIn == DOMAIN spot_preferences

NoSample ==
    /\ wave_height = None
    /\ wave_period = None
    /\ wave_direction = None
    /\ wind_speed = None
    /\ wind_direction = None
    /\ spot_orientation = None

InitWeighted ==
    /\ args \in [ weather : WeatherInputs, hour : HourInputs, spot_name : {""} ]
    /\ NoSample
    /\ fn = ""
    /\ ret = NoCall
    /\ NoRuns
    /\ NoDb

\* self._calculate_spot_score(weather, spot_name, prefs), as get_recommendations
\* calls it: prefs is the profile of spot_name
CallCalculateSpotScore ==
    \E spot_name \in SpotNamesBuiltIn :
        /\ args' = [args EXCEPT !.spot_name = spot_name]
        /\ fn' = "_calculate_spot_score"
        /\ ret' = _calculate_spot_score(args.weather, args.hour,
                                        spot_preferences[spot_name])
        /\ UNCHANGED << wave_height, wave_period, wave_direction, wind_speed,
                        wind_direction, spot_orientation, dbVars, runVars >>

CallGetRecommendations ==
    /\ "weather" \in DOMAIN args
    /\ args' = [args EXCEPT !.spot_name = ""]
    /\ fn' = "get_recommendations"
    /\ ret' = get_recommendations(args.weather, ClockStill(args.hour))
    /\ UNCHANGED << wave_height, wave_period, wave_direction, wind_speed,
                    wind_direction, spot_orientation, dbVars, runVars >>

NextWeighted ==
    \/ CallCalculateSpotScore
    \/ CallGetRecommendations

SpecWeighted == InitWeighted /\ [][NextWeighted]_vars

\* the keys of the dict that hold None
NullKeys(weather) == { k \in WeatherKeys : weather[k] = Present(None) }

\* C11: for every built-in profile and every numeric sample (negative heights,
\* negative or very large wind speeds, negative temperatures and angles outside
\* [0, 360) included) the score _calculate_spot_score returns is in [0, 100].
C11_WeightedScoreInBounds ==
    (fn = "_calculate_spot_score" /\ ret.exc = "none") =>
        /\ Val(ret.value) >= 0
        /\ Val(ret.value) <= 100000

\* the sample with the fallback of _calculate_spot_score in the place of every
\* absent field, a key the dict lacks or a key that holds None
WithFallbacks(weather) ==
    LET fallback == [ wave_height |-> 50, wave_direction |-> 270,
                      wind_speed |-> 50, wind_direction |-> 90,
                      wave_period |-> 80, air_temperature |-> 12 ]
    IN  [ k \in WeatherKeys |->
            IF weather[k] = Missing \/ weather[k] = Present(None)
            THEN Present(Some(fallback[k]))
            ELSE weather[k] ]

\* C12: whatever subset of the numeric fields is absent, by a missing key or
\* by a key holding None, get_recommendations returns without raising the
\* ranked list it returns for the sample with the fallbacks filled in.
C12_AbsentFieldsFallBack ==
    fn = "get_recommendations" =>
        /\ ret.exc = "none"
        /\ ret = get_recommendations(WithFallbacks(args.weather),
                                     ClockStill(args.hour))

----------------------------------------------------------------------------
(* The weighted scorer applied to samples centred in a profile's ranges *)

Centre(range) == (range[1] + range[2]) \div 2

\* the sample in the middle of every optimal range of the profile of spot_name,
\* its wind speed the ideal one (which no profile's max is under), with the
\* air_temperature key holding what is given
CentredSample(spot_name, temperature) ==
    LET prefs == spot_preferences[spot_name]
    IN  [ wave_height |-> Present(Some(Centre(prefs.optimal_wave_height))),
          wave_direction |-> Present(Some(Centre(prefs.optimal_wave_direction))),
          wind_speed |-> Present(Some(rules.ideal_wind_speed)),
          wind_direction |-> Present(Some(Centre(prefs.optimal_wind_direction))),
          wave_period |-> Present(Some(Centre(rules.ideal_period_range))),
          air_temperature |-> temperature ]

TemperatureInputs == KeyInputs({ -10, 0, 12, 13, 14, 15, 25 })

InitCentred ==
    /\ args \in { [ weather |-> CentredSample(spot_name, temperature),
                    hour |-> hour, spot_name |-> "" ] :
                  spot_name \in SpotNamesBuiltIn,
                  temperature \in TemperatureInputs, hour \in 0..23 }
    /\ NoSample
    /\ fn = ""
    /\ ret = NoCall
    /\ NoRuns
    /\ NoDb

SpecCentred == InitCentred /\ [][NextWeighted]_vars

\* the profile of args.spot_name has scored the sample centred in its ranges
CentredScored ==
    /\ fn = "_calculate_spot_score"
    /\ ret.exc = "none"
    /\ args.weather = CentredSample(args.spot_name, args.weather.air_temperature)

\* the air temperature _calculate_spot_score reads from the sample
TemperatureRead == Val(WeatherGet(args.weather, "air_temperature", 12))

\* C13 as stated: the sample centred in every optimal range of a profile
\* scores >= 95 against that profile at every hour of the day.
C13_CentredScoresNinetyFive ==
    CentredScored => Val(ret.value) >= 95000

\* C13 amended: the sample centred in every optimal range of a profile scores
\* at least 91.5 against it, at least 95 when the hour is 6..9 or the air
\* temperature is at least 14, and 100 when both the hour is 6..9 and the
\* temperature at least 15.
C13_CentredScoresAboveNinety ==
    CentredScored =>
        /\ Val(ret.value) >= 91500
        /\ Val(ret.value) <= 100000
        /\ (args.hour \in 6..9 \/ TemperatureRead >= 14) => Val(ret.value) >= 95000
        /\ (args.hour \in 6..9 /\ TemperatureRead >= 15) => Val(ret.value) = 100000

\* the centred sample of a profile scored at night with the key air_temperature
\* missing: 94.5
C13_Witness ==
    /\ CentredScored
    /\ args.hour = 3
    /\ args.weather.air_temperature = Missing
    /\ Val(ret.value) = 94500

----------------------------------------------------------------------------
(* The direction score applied to drawn directions and ranges *)

InitDirection ==
    /\ args \in [ direction : InRangeAngles,
                  optimal_range : InRangeAngles \X InRangeAngles ]
    /\ NoSample
    /\ fn = ""
    /\ ret = NoCall
    /\ NoRuns
    /\ NoDb

CallScoreWaveDirection ==
    /\ fn' = "_score_wave_direction"
    /\ ret' = Return(_score_wave_direction(args.direction, args.optimal_range))
    /\ UNCHANGED << argVars, dbVars, runVars >>

NextDirection ==
    \/ CallScoreWaveDirection

SpecDirection == InitDirection /\ [][NextDirection]_vars

\* C14: for every direction in [0, 360) and every range, wrapping or not, the
\* direction score is 100 inside the range and otherwise max(0, 100 - 2 d),
\* d the shortest way round the circle from the direction to the nearer edge.
C14_DirectionScoreCircular ==
    fn = "_score_wave_direction" =>
        LET direction == args.direction
            min_dir == args.optimal_range[1]
            max_dir == args.optimal_range[2]
            inside == IF max_dir < min_dir
                      THEN direction >= min_dir \/ direction <= max_dir
                      ELSE min_dir <= direction /\ direction <= max_dir
            d == Min(angle_diff(direction, min_dir), angle_diff(direction, max_dir))
        IN  Val(ret.value) = IF inside THEN 100000 ELSE Max(0, 100000 - 2000 * d)

----------------------------------------------------------------------------
(* The wind sub-score applied to drawn speeds, directions and profiles *)

\* wind speeds (tenths of m/s): the ideal speed, every profile's max, its
\* neighbours above, and the extremes of both signs
SpeedInputs ==
    { -10 * MaxWind, 0, 50, 80, 100, 101, 120, 121, 130, 140, 141, 150, 151,
      170, 180, 181, 200, 230, 10 * MaxWind }

InitWind ==
    /\ args \in [ speed : SpeedInputs, direction : InRangeAngles,
                  spot_name : SpotNamesBuiltIn ]
    /\ NoSample
    /\ fn = ""
    /\ ret = NoCall
    /\ NoRuns
    /\ NoDb

CallScoreWind ==
    /\ fn' = "_score_wind"
    /\ ret' = Return(_score_wind(args.speed, args.direction,
                                 spot_preferences[args.spot_name]))
    /\ UNCHANGED << argVars, dbVars, runVars >>

NextWind ==
    \/ CallScoreWind

SpecWind == InitWind /\ [][NextWind]_vars

\* the 0.7 / 0.3 combination of a speed score with the direction score of the
\* wind direction drawn
WindCombined(speed_score) ==
    LET prefs == spot_preferences[args.spot_name]
        direction_score ==
            _score_wave_direction(args.direction, prefs.optimal_wind_direction)
    IN  (700 * speed_score + 300 * direction_score) \div 1000

\* C15 as stated: the speed score is 100 - 5 |speed - 8| at or under the
\* profile's max and, above it, falls by 10 per m/s of excess floored at 50;
\* the wind sub-score is 0.7 speed score + 0.3 direction score.
C15_SpeedScoreFlooredAtFifty ==
    fn = "_score_wind" =>
        LET max_wind == spot_preferences[args.spot_name].max_wind_speed
            speed_score ==
                IF args.speed <= max_wind
                THEN 100000 - 500 * Abs(args.speed - 80)
                ELSE Max(50000, 100000 - 1000 * (args.speed - max_wind))
        IN  Val(ret.value) = WindCombined(speed_score)

\* C15 amended: above the profile's max the speed score is 50 less 10 per m/s
\* of excess, floored at 0; at or under it, 100 - 5 |speed - 8|; the wind
\* sub-score is 0.7 speed score + 0.3 direction score.
C15_SpeedScoreFallsFromFifty ==
    fn = "_score_wind" =>
        LET max_wind == spot_preferences[args.spot_name].max_wind_speed
            speed_score ==
                IF args.speed <= max_wind
                THEN 100000 - 500 * Abs(args.speed - 80)
                ELSE Max(0, 50000 - 1000 * (args.speed - max_wind))
        IN  Val(ret.value) = WindCombined(speed_score)

\* 13 m/s from 90 degrees at Bore (max 12 m/s): speed score 40, direction
\* score 100, wind sub-score 58
C15_Witness ==
    /\ fn = "_score_wind"
    /\ args = [ speed |-> 130, direction |-> 90, spot_name |-> "Bore" ]
    /\ ret = Return(58000)

----------------------------------------------------------------------------
(* The rating category applied to pairs of drawn scores *)

\* scores of [0, 100] in steps of half a point, and next to each threshold
\* the scores a thousandth under and over it
RatingScores ==
    { 500 * k : k \in 0..200 } \cup
    { t + e : t \in { 35000, 50000, 65000, 80000 }, e \in { -1, 1 } }

\* a second score, compared with the one rated
OtherScores == { 0, 34999, 35000, 49999, 50000, 64999, 65000, 79999, 80000, 100000 }

InitRating ==
    /\ args \in [ score : RatingScores, other : OtherScores ]
    /\ NoSample
    /\ fn = ""
    /\ ret = NoCall
    /\ NoRuns
    /\ NoDb

CallScoreToRating ==
    /\ fn' = "_score_to_rating"
    /\ ret' = Return(_score_to_rating(args.score))
    /\ UNCHANGED << argVars, dbVars, runVars >>

NextRating ==
    \/ CallScoreToRating

SpecRating == InitRating /\ [][NextRating]_vars

\* the place of a category in the order from worst to best, 0 for any other
\* string
CategoryRank(category) ==
    CASE category = "Very Poor" -> 1
      [] category = "Poor" -> 2
      [] category = "Fair" -> 3
      [] category = "Good" -> 4
      [] category = "Excellent" -> 5
      [] OTHER -> 0

\* C16: over scores in [0, 100] the rating is one of the five categories, it
\* is Excellent from 80, Good from 65, Fair from 50, Poor from 35 and Very
\* Poor under 35, and a higher score never gets a lower category.
C16_RatingTotalMonotone ==
    fn = "_score_to_rating" =>
        LET category == Val(ret.value) IN
        /\ CategoryRank(category) \in 1..5
        /\ category = "Excellent" <=> args.score >= 80000
        /\ category = "Good" <=> (args.score >= 65000 /\ args.score < 80000)
        /\ category = "Fair" <=> (args.score >= 50000 /\ args.score < 65000)
        /\ category = "Poor" <=> (args.score >= 35000 /\ args.score < 50000)
        /\ category = "Very Poor" <=> args.score < 35000
        /\ args.other >= args.score =>
               CategoryRank(_score_to_rating(args.other)) >= CategoryRank(category)
        /\ args.other <= args.score =>
               CategoryRank(_score_to_rating(args.other)) <= CategoryRank(category)

\* a score a thousandth under the Fair threshold is rated Poor, under the
\* score 50.0 that is rated Fair
C16_Witness ==
    /\ fn = "_score_to_rating"
    /\ args.score = 49999
    /\ args.other = 50000
    /\ ret = Return("Poor")

----------------------------------------------------------------------------
(* The simulated recommender (backend/surf_recommender.py)                  *)
(*                                                                          *)
(* Units of this part: the unrounded floats of _simulate_surf_conditions    *)
(* are in millionths (of a metre, a second, m/s, a degree, of one); the     *)
(* rounded conditions are in tenths (wave height, wave period, wind speed), *)
(* whole degrees (directions) and hundredths (seasonal_factor); a spot      *)
(* factor is in tenths and a surf score in tenths of a point.               *)

Million == 1000 * 1000

\* round(x / unit): Python rounds the float nearest to the quotient, a tie in
\* decimal falling to either side; ties go to the even neighbour here, and
\* the days and descriptions drawn below produce none
Round(x, unit) ==
    LET q == x \div unit
        r == x % unit
    IN  IF 2 * r > unit \/ (2 * r = unit /\ q % 2 = 1) THEN q + 1 ELSE q

Clamp(lo, hi, x) == Max(lo, Min(hi, x))

\* the sines _simulate_surf_conditions takes of a day of the year, in
\* millionths: season is math.sin((day - 80) * 2 * math.pi / 365), tide
\* math.sin(day * 0.1), period math.sin(day * 0.05), wind math.sin(day * 0.08),
\* wind_dir math.sin(day * 0.03), wave_dir math.sin(day * 0.02)
Sines(season, tide, period, wind, wind_dir, wave_dir) ==
    [ season |-> season, tide |-> tide, period |-> period, wind |-> wind,
      wind_dir |-> wind_dir, wave_dir |-> wave_dir ]

SineTable ==
    [ day_of_year \in { 1, 15, 100, 172, 266, 355 } |->
        CASE day_of_year = 1 ->
                Sines(-977848, 99833, 49979, 79915, 29996, 19999)
          [] day_of_year = 15 ->
                Sines(-899631, 997495, 681639, 932039, 434966, 295520)
          [] day_of_year = 100 ->
                Sines(337523, -544021, -958924, 989358, 141120, 909297)
          [] day_of_year = 172 ->
                Sines(999917, -996900, 734397, 929712, -901484, -293998)
          [] day_of_year = 266 ->
                Sines(-60213, 994645, 669570, 652704, 992070, -821014)
          [] day_of_year = 355 ->
                Sines(-999769, -809019, -891006, -125336, -940881, 728969) ]

\* the keywords of _get_spot_factor that description.lower() contains, for
\* the descriptions drawn
KeywordsIn(description) ==
    CASE description = "Beach Break" -> { "beach break" }
      [] description = "beskyttet reef break" -> { "reef break", "beskyttet" }
      [] description = "point break" -> { "point break" }
      [] description = "beskyttet bukt" -> { "beskyttet" }
      [] OTHER -> {}

\* a spot is a row of surf_spots; its description and orientation are None or
\* a value
_get_spot_factor(spot) ==
    IF IsNone(spot.description)
    THEN Raise("AttributeError")
    ELSE LET description == KeywordsIn(Val(spot.description))
         IN  Return(IF "beach break" \in description THEN 12
                    ELSE IF "reef break" \in description THEN 8
                    ELSE IF "point break" \in description THEN 9
                    ELSE IF "beskyttet" \in description THEN 11
                    ELSE 10)

\* both angles in millionths of a degree
_is_offshore_wind(wind_dir, orientation) ==
    LET offshore_direction == (orientation + 180 * Million) % (360 * Million)
        d == Abs(wind_dir - offshore_direction)
        diff == IF d > 180 * Million THEN 360 * Million - d ELSE d
    IN  diff <= 45 * Million

\* air_temperature and tide_height, which nothing reads, are left out of the
\* conditions
_simulate_surf_conditions(spot, day_of_year) ==
    LET sin == SineTable[day_of_year]
        seasonal_factor == 700000 + (3 * sin.season) \div 10
        spot_factor == _get_spot_factor(spot)
    IN  IF spot_factor.exc # "none" THEN spot_factor
        ELSE IF IsNone(spot.orientation) THEN Raise("TypeError")
        ELSE
        LET orientation == Val(spot.orientation) * Million
            height ==
                Clamp(500000, 3000000,
                      (15 * seasonal_factor * Val(spot_factor.value)) \div 100
                      + (3 * sin.tide) \div 10)
            period ==
                Clamp(4 * Million, 15 * Million, 8 * Million + 2 * sin.period)
            speed ==
                Clamp(2 * Million, 15 * Million, 8 * Million + 3 * sin.wind)
            wind_dir ==
                (orientation + 180 * Million + 30 * sin.wind_dir) % (360 * Million)
            offshore_wind == _is_offshore_wind(wind_dir, orientation)
        IN  Return([ wave_height |-> Round(height, 100000),
                     wave_period |-> Round(period, 100000),
                     wave_direction |->
                         Round((orientation + 20 * sin.wave_dir) % (360 * Million),
                               Million),
                     wind_speed |-> Round(speed, 100000),
                     wind_direction |-> Round(wind_dir, Million),
                     offshore_wind |-> offshore_wind,
                     seasonal_factor |-> Round(seasonal_factor, 10000) ])

\* SurfRecommender._calculate_surf_score; it is called after
\* _simulate_surf_conditions has returned, so _get_spot_factor returns
_calculate_surf_score(conditions, spot) ==
    LET height == conditions.wave_height
        period == conditions.wave_period
        speed == conditions.wind_speed
        base == 50
        for_height == IF 10 <= height /\ height <= 20 THEN 20
                      ELSE IF 8 <= height /\ height <= 25 THEN 10
                      ELSE IF height < 5 THEN -20
                      ELSE IF height > 30 THEN -10
                      ELSE 0
        for_period == IF 80 <= period /\ period <= 120 THEN 15
                      ELSE IF 60 <= period /\ period <= 140 THEN 5
                      ELSE IF period < 50 THEN -10
                      ELSE 0
        for_offshore == IF conditions.offshore_wind THEN 20
                        ELSE IF speed > 100 THEN -15
                        ELSE IF speed > 70 THEN -5
                        ELSE 0
        for_speed == IF 30 <= speed /\ speed <= 80 THEN 5
                     ELSE IF speed > 120 THEN -10
                     ELSE 0
        spot_factor == Val(_get_spot_factor(spot).value)
        score == (base + for_height + for_period + for_offshore + for_speed)
                 * spot_factor * conditions.seasonal_factor
    IN  Max(10, Min(100, Round(score, 1000)))

\* the reasons _get_recommendation_reason joins with a comma (bolgehoyde and
\* bolgeperiode stand for the words spelled with o-slash)
ReasonsNotCapped(conditions, surf_score) ==
    (IF conditions.offshore_wind THEN << "Offshore vind" >> ELSE << >>)
    \o (IF 10 <= conditions.wave_height /\ conditions.wave_height <= 20
        THEN << "Perfekt bolgehoyde" >> ELSE << >>)
    \o (IF 80 <= conditions.wave_period /\ conditions.wave_period <= 120
        THEN << "Lang bolgeperiode" >> ELSE << >>)
    \o << IF surf_score >= 80 THEN "Utmerket surf-forhold"
          ELSE IF surf_score >= 60 THEN "Gode surf-forhold"
          ELSE IF surf_score >= 40 THEN "OK surf-forhold"
          ELSE "Begrensede surf-forhold" >>
_get_recommendation_reason(conditions, surf_score) ==
    LET reasons == ReasonsNotCapped(conditions, surf_score)
    IN  SubSeq(reasons, 1, Min(3, Len(reasons)))

\* self.db.query(SurfSpot).all(): the rows in the order of the table scan,
\* by ascending id
QueryAll(rows) ==
    List([ p \in 1..Cardinality(rows) |->
             CHOOSE r \in rows : Cardinality({ q \in rows : q.id < r.id }) = p - 1 ])

\* list[:k]
Slice(list, k) ==
    IF k >= 0 THEN SubSeq(list, 1, Min(k, Len(list)))
    ELSE SubSeq(list, 1, Max(0, Len(list) + k))

\* SurfRecommender.get_spot_recommendations over the rows of surf_spots
get_spot_recommendations(rows, day_of_year, max_spots) ==
    LET all == QueryAll(rows)
        n == Len(all)
        surf_conditions ==
            List([ i \in 1..n |-> _simulate_surf_conditions(all[i], day_of_year) ])
    IN  IF \E i \in 1..n : surf_conditions[i].exc # "none"
        THEN LET first == CHOOSE i \in 1..n :
                              /\ surf_conditions[i].exc # "none"
                              /\ \A j \in 1..(i - 1) : surf_conditions[j].exc = "none"
             IN  Raise(surf_conditions[first].exc)
        ELSE LET surf_score ==
                     List([ i \in 1..n |->
                              _calculate_surf_score(Val(surf_conditions[i].value),
                                                    all[i]) ])
                 recommendations == List(
                     [ i \in 1..n |->
                         [ spot_name |-> all[i].name,
                           coordinates |-> << all[i].latitude, all[i].longitude >>,
                           orientation |-> all[i].orientation,
                           description |-> all[i].description,
                           surf_score |-> surf_score[i],
                           surf_conditions |-> Val(surf_conditions[i].value),
                           recommendation_reason |->
                               _get_recommendation_reason(
                                   Val(surf_conditions[i].value), surf_score[i]) ] ])
                 order == SortOrder(surf_score)
             IN  Return(Slice(List([ p \in 1..n |-> recommendations[order[p]] ]),
                              max_spots))

----------------------------------------------------------------------------
(* The two recommenders applied to drawn samples and drawn tables *)

\* the names of the rows drawn, by id
RowNames == << "Bore", "Orre", "Hellesto" >>

\* Column(Float) and Column(Text, nullable=True) both admit NULL
RowOrientations == Opt({ 270, 270 - 360 * MaxTurns })
RowDescriptions == Opt({ "", "Beach Break", "beskyttet reef break" })

\* the tables of up to most rows
Tables(most) ==
    UNION { { { [ id |-> i, name |-> RowNames[i], latitude |-> 58,
                  longitude |-> 5, orientation |-> o[i],
                  description |-> d[i] ] : i \in 1..n } :
              o \in [ 1..n -> RowOrientations ], d \in [ 1..n -> RowDescriptions ] } :
            n \in 0..most }
TableInputs == Tables(Len(RowNames))

\* the query parameter max_spots is any int
MaxSpotsInputs == { -1, 1, 5 }

InitSimulated ==
    /\ spots \in TableInputs
    /\ next_spot_id = Cardinality(spots) + 1
    /\ sessions = {}
    /\ next_session_id = 1
    /\ response = 0
    /\ args \in [ day_of_year : DOMAIN SineTable, max_spots : MaxSpotsInputs ]
    /\ NoSample
    /\ fn = ""
    /\ ret = NoCall
    /\ NoRuns

CallGetSpotRecommendations ==
    /\ "day_of_year" \in DOMAIN args
    /\ fn' = "get_spot_recommendations"
    /\ ret' = get_spot_recommendations(spots, args.day_of_year, args.max_spots)
    /\ UNCHANGED << argVars, dbVars, runVars >>

InitRanking ==
    \/ InitWeighted
    \/ InitSimulated

NextRanking ==
    \/ CallGetRecommendations
    \/ CallGetSpotRecommendations

SpecRanking == InitRanking /\ [][NextRanking]_vars

\* the place of a spot in the input of the ranking: in self.spot_preferences
\* for the weighted mode, in the query result for the simulated mode
ProfilePlace(spot_name) == CHOOSE i \in 1..Len(SpotOrder) : SpotOrder[i] = spot_name
QueryPlace(spot_name) ==
    CHOOSE i \in 1..Len(QueryAll(spots)) : QueryAll(spots)[i].name = spot_name

\* C17: in both modes the list returned is in non-increasing score order, and
\* two spots with equal scores keep the order they had in the input (profile
\* insertion order, query order).
C17_RankingStableDescending ==
    /\ (fn = "get_recommendations" /\ ret.exc = "none") =>
           LET list == Val(ret.value) IN
           \A p, q \in 1..Len(list) :
               p < q =>
                   /\ list[p].score >= list[q].score
                   /\ list[p].score = list[q].score =>
                          ProfilePlace(list[p].spot) < ProfilePlace(list[q].spot)
    /\ (fn = "get_spot_recommendations" /\ ret.exc = "none") =>
           LET list == Val(ret.value) IN
           \A p, q \in 1..Len(list) :
               p < q =>
                   /\ list[p].surf_score >= list[q].surf_score
                   /\ list[p].surf_score = list[q].surf_score =>
                          QueryPlace(list[p].spot_name) < QueryPlace(list[q].spot_name)

\* a simulated ranking of three spots in which the second and third rows of
\* the table tie and follow the first in the list, which scores higher
C17_Witness ==
    /\ fn = "get_spot_recommendations"
    /\ ret.exc = "none"
    /\ Len(Val(ret.value)) = 3
    /\ Val(ret.value)[1].surf_score > Val(ret.value)[2].surf_score
    /\ Val(ret.value)[2].surf_score = Val(ret.value)[3].surf_score
    /\ Val(ret.value)[2].spot_name = "Bore"
    /\ Val(ret.value)[3].spot_name = "Hellesto"

----------------------------------------------------------------------------
(* The two rationale generators applied to drawn conditions *)

\* the conditions _get_recommendation_reason reads, either side of each of
\* its thresholds, and surf scores either side of each category
ReasonConditions ==
    [ offshore_wind : BOOLEAN, wave_height : { 9, 10, 20, 21 },
      wave_period : { 79, 80, 120, 121 } ]
ReasonScores == { 10, 39, 40, 59, 60, 79, 80, 100 }

\* the keys _generate_explanation reads, either side of its thresholds and
\* of the profiles' ranges
ExplanationWeather ==
    [ wave_height : KeyInputs({ 70, 140, 260, 450 }),
      wave_direction : { Missing },
      wind_speed : KeyInputs({ 40, 80, 130 }),
      wind_direction : KeyInputs({ 90, 270 }),
      wave_period : KeyInputs({ 60, 80, 100 }),
      air_temperature : { Missing } ]

InitRationale ==
    /\ \/ args \in [ conditions : ReasonConditions, surf_score : ReasonScores ]
       \/ args \in [ weather : ExplanationWeather, spot_name : SpotNamesBuiltIn ]
    /\ NoSample
    /\ fn = ""
    /\ ret = NoCall
    /\ NoRuns
    /\ NoDb

CallGetRecommendationReason ==
    /\ "conditions" \in DOMAIN args
    /\ fn' = "_get_recommendation_reason"
    /\ ret' = Return(_get_recommendation_reason(args.conditions, args.surf_score))
    /\ UNCHANGED << argVars, dbVars, runVars >>

\* _generate_explanation compares the wave height, the wind direction, the
\* wind speed and the period with numbers: TypeError on None
CallGenerateExplanation ==
    /\ "weather" \in DOMAIN args
    /\ fn' = "_generate_explanation"
    /\ ret' = IF NullKeys(args.weather) # {}
              THEN Raise("TypeError")
              ELSE Return(_generate_explanation(args.weather,
                                                spot_preferences[args.spot_name]))
    /\ UNCHANGED << argVars, dbVars, runVars >>

NextRationale ==
    \/ CallGetRecommendationReason
    \/ CallGenerateExplanation

SpecRationale == InitRationale /\ [][NextRationale]_vars

\* what a phrase of either generator is about: 1 offshore wind present, 2 wave
\* height within the band, 3 long-period swell, 4 the overall category label,
\* 0 anything else
PhraseKind(phrase) ==
    CASE phrase \in { "Offshore vind", "Great offshore winds",
                      "Offshore but strong winds" } -> 1
      [] phrase \in { "Perfekt bolgehoyde", "Perfect wave size" } -> 2
      [] phrase \in { "Lang bolgeperiode", "Long period swell" } -> 3
      [] phrase \in { "Utmerket surf-forhold", "Gode surf-forhold",
                      "OK surf-forhold", "Begrensede surf-forhold" } -> 4
      [] OTHER -> 0

\* one to three phrases of the four kinds, in the order wind, wave height,
\* period, category
OrderedRationale(phrases) ==
    /\ Len(phrases) \in 1..3
    /\ \A p \in 1..Len(phrases) : PhraseKind(phrases[p]) \in 1..4
    /\ \A p, q \in 1..Len(phrases) :
           p < q => PhraseKind(phrases[p]) < PhraseKind(phrases[q])

\* C18 as stated: the rationale of a recommendation, from either generator,
\* is one to three phrases chosen from offshore wind, wave height in band,
\* long-period swell and the category label, in that relative order.
C18_RationaleOrdered ==
    (fn \in { "_get_recommendation_reason", "_generate_explanation" }
     /\ ret.exc = "none") => OrderedRationale(Val(ret.value))

\* C18 amended: the reason of the simulated recommender is one to three
\* phrases of the four kinds in the order wind, wave height, period, category,
\* the category label being left out exactly when the other three are all
\* present; the explanation of the weighted recommender is always three
\* phrases, about the wave height, then the wind, then the period, whatever
\* they say of each, and has no category label.
C18_RationalePerGenerator ==
    /\ (fn = "_get_recommendation_reason" /\ ret.exc = "none") =>
           LET phrases == Val(ret.value) IN
           /\ OrderedRationale(phrases)
           /\ (\E p \in 1..Len(phrases) : PhraseKind(phrases[p]) = 4) <=>
                  ~ ( /\ args.conditions.offshore_wind
                      /\ args.conditions.wave_height \in 10..20
                      /\ args.conditions.wave_period \in 80..120 )
    /\ (fn = "_generate_explanation" /\ ret.exc = "none") =>
           LET phrases == Val(ret.value) IN
           /\ Len(phrases) = 3
           /\ phrases[1] \in { "Perfect wave size", "Waves a bit small",
                               "Waves quite big" }
           /\ phrases[2] \in { "Great offshore winds", "Offshore but strong winds",
                               "Light onshore winds", "Strong onshore winds" }
           /\ phrases[3] \in { "Long period swell", "Good period",
                               "Short period waves" }

\* offshore wind, a wave height in the band and a long period together: the
\* three phrases fill the reason and the category label is cut off
C18_Witness ==
    /\ fn = "_get_recommendation_reason"
    /\ ret = Return(<< "Offshore vind", "Perfekt bolgehoyde", "Lang bolgeperiode" >>)

----------------------------------------------------------------------------
(* The recommendation endpoints of backend/main.py over the two tables.     *)
(* An average and the success rate are in tenths (of a rating point, of a   *)
(* score point, of a percent).                                              *)

\* the foreign keys and relationships declared between surf_sessions and
\* surf_spots: SurfSession.spot_id is Column(Integer, index=True)
ForeignKeys == {}

\* self.db.query(SurfSession).join(SurfSpot): SQLAlchemy derives the ON clause
\* from the one foreign key between the two tables and raises when it finds
\* none
JoinSessionsToSpots ==
    IF Cardinality(ForeignKeys) = 1
    THEN Return({ << s, p >> \in sessions \X spots : s.spot_id = p.id })
    ELSE Raise("InvalidRequestError")

RECURSIVE SeqSum(_)
SeqSum(numbers) ==
    IF numbers = << >> THEN 0 ELSE Head(numbers) + SeqSum(Tail(numbers))

\* SurfRecommender.get_historical_performance
get_historical_performance(spot_name) ==
    LET joined == JoinSessionsToSpots
    IN  IF joined.exc # "none" THEN joined
        ELSE
        LET found == QueryAll({ pair[1] : pair \in
                                  { jp \in Val(joined.value) : jp[2].name = spot_name } })
            n == Len(found)
            ratings == List([ i \in 1..n |-> found[i].rating ])
            scored == SelectSeq(found, LAMBDA s : ~IsNone(s.surf_score))
            surf_scores == List([ i \in 1..Len(scored) |-> Val(scored[i].surf_score) ])
            successful_sessions == Len(SelectSeq(ratings, LAMBDA r : r >= 4))
        IN  IF n = 0
            THEN Return([ spot_name |-> spot_name, total_sessions |-> 0,
                          average_rating |-> 0, average_surf_score |-> 0,
                          success_rate |-> 0 ])
            ELSE Return([ spot_name |-> spot_name, total_sessions |-> n,
                          average_rating |-> Round(10 * SeqSum(ratings), n),
                          average_surf_score |->
                              IF surf_scores = << >> THEN 0
                              ELSE Round(SeqSum(surf_scores), Len(surf_scores)),
                          success_rate |-> Round(1000 * successful_sessions, n) ])

\* the status of the response: the handlers wrap their bodies in
\* try: ... except Exception: raise HTTPException(status_code=500)
Responds(outcome) == IF outcome.exc = "none" THEN 200 ELSE 500

\* the most recommenders left open that are followed
MaxOpen == 2

\* the recommenders a handler leaves open: it creates one SurfRecommender,
\* and recommender.close() is the statement after the calls that may raise
LeftOpen(outcome) == IF outcome.exc = "none" THEN 0 ELSE 1

\* GET /api/recommendations
get_surf_recommendations(day_of_year, max_spots) ==
    /\ recommenders < MaxOpen
    /\ fn' = "get_surf_recommendations"
    /\ args' = [ date |-> day_of_year, max_spots |-> max_spots ]
    /\ ret' = get_spot_recommendations(spots, day_of_year, max_spots)
    /\ response' = Responds(ret')
    /\ recommenders' = recommenders + LeftOpen(ret')
    /\ UNCHANGED << spots, sessions, next_spot_id, next_session_id, sampleVars,
                    requests >>

\* GET /api/recommendations/{spot_name}/performance
get_spot_performance(spot_name) ==
    /\ recommenders < MaxOpen
    /\ fn' = "get_spot_performance"
    /\ args' = [ spot_name |-> spot_name ]
    /\ ret' = get_historical_performance(spot_name)
    /\ response' = Responds(ret')
    /\ recommenders' = recommenders + LeftOpen(ret')
    /\ UNCHANGED << spots, sessions, next_spot_id, next_session_id, sampleVars,
                    requests >>

\* [name.strip() for name in spots.split(',')] for the query strings drawn
SplitStrip(param) ==
    CASE param = "Bore" -> << "Bore" >>
      [] param = "Bore, Orre" -> << "Bore", "Orre" >>
      [] param = "Bore,Bore" -> << "Bore", "Bore" >>
      [] param = "Reve" -> << "Reve" >>
      [] param = "Orre,Reve" -> << "Orre", "Reve" >>
      [] OTHER -> << param >>

\* the query parameter spots: absent, empty or a comma-separated list
SpotsParams == Opt({ "", "Bore", "Bore, Orre", "Bore,Bore", "Reve", "Orre,Reve" })

\* the body of compare_spots, inside its try
CompareBody(param, day_of_year) ==
    IF IsNone(param) \/ Val(param) = ""
    THEN get_spot_recommendations(spots, day_of_year, 10)
    ELSE
    LET spot_names == SplitStrip(Val(param))
        requested == { spot_names[i] : i \in 1..Len(spot_names) }
        all_spots == QueryAll({ spot \in spots : spot.name \in requested })
        n == Len(all_spots)
        entry == List(
            [ i \in 1..n |->
                LET conditions == _simulate_surf_conditions(all_spots[i], day_of_year)
                    performance == get_historical_performance(all_spots[i].name)
                IN  IF conditions.exc # "none" THEN conditions
                    ELSE IF performance.exc # "none" THEN performance
                    ELSE Return(
                        [ spot_name |-> all_spots[i].name,
                          coordinates |-> << all_spots[i].latitude,
                                             all_spots[i].longitude >>,
                          surf_score |->
                              _calculate_surf_score(Val(conditions.value),
                                                    all_spots[i]),
                          surf_conditions |-> Val(conditions.value),
                          historical_performance |-> Val(performance.value) ]) ])
    IN  IF n # Len(spot_names) THEN Raise("HTTPException 404")
        ELSE IF \E i \in 1..n : entry[i].exc # "none"
        THEN LET first == CHOOSE i \in 1..n :
                              /\ entry[i].exc # "none"
                              /\ \A j \in 1..(i - 1) : entry[j].exc = "none"
             IN  Raise(entry[first].exc)
        ELSE Return(List([ i \in 1..n |-> Val(entry[i].value) ]))

\* GET /api/recommendations/compare
compare_spots(param, day_of_year) ==
    /\ fn' = "compare_spots"
    /\ args' = [ spots |-> param, day_of_year |-> day_of_year ]
    /\ recommenders < MaxOpen
    /\ ret' = CompareBody(param, day_of_year)
    /\ response' = Responds(ret')
    /\ recommenders' = recommenders + LeftOpen(ret')
    /\ UNCHANGED << spots, sessions, next_spot_id, next_session_id, sampleVars,
                    requests >>

----------------------------------------------------------------------------
(* The recommendation endpoints applied to drawn tables *)

\* the columns of surf_sessions that get_historical_performance reads, in
\* tables of up to MaxSessions rows; spot_id is a plain integer column and
\* may name a spot that is not stored
SessionTables ==
    UNION { { { [ id |-> i, spot_id |-> spot[i], rating |-> rating[i],
                  surf_score |-> score[i] ] : i \in 1..n } :
              spot \in [ 1..n -> 1..Cardinality(SpotNames) ],
              rating \in [ 1..n -> { 3, 4 } ],
              score \in [ 1..n -> Opt({ 70 }) ] } :
            n \in 0..MaxSessions }

InitEndpoints ==
    /\ spots \in Tables(Cardinality(SpotNames))
    /\ next_spot_id = Cardinality(spots) + 1
    /\ sessions \in SessionTables
    /\ next_session_id = Cardinality(sessions) + 1
    /\ response = 0
    /\ args = NoArgs
    /\ NoSample
    /\ fn = ""
    /\ ret = NoCall
    /\ NoRuns

GetSpotPerformance ==
    \E spot_name \in SpotNames \cup { "Reve" } : get_spot_performance(spot_name)

\* the day of the year of the date compared on
CompareDays == { 100 }

CompareSpots ==
    \E param \in SpotsParams, day_of_year \in CompareDays :
        compare_spots(param, day_of_year)

GetSurfRecommendations ==
    \E day_of_year \in CompareDays : get_surf_recommendations(day_of_year, 5)

NextEndpoints ==
    \/ GetSurfRecommendations
    \/ GetSpotPerformance
    \/ CompareSpots

SpecEndpoints == InitEndpoints /\ [][NextEndpoints]_vars

\* the sessions logged for a spot: those whose spot_id is the id of the
\* stored spot of that name
LoggedFor(spot_name) ==
    { s \in sessions : \E p \in spots : p.name = spot_name /\ p.id = s.spot_id }

\* C19: get_historical_performance(spot_name) reports total_sessions equal to
\* the number of sessions logged for the spot and success_rate equal to
\* 100 x (those rated >= 4) / total_sessions, within [0, 100]; with no
\* sessions it returns total 0, average rating 0, average score 0 and success
\* rate 0; it does not raise.
C19_PerformanceCountsSessions ==
    fn = "get_spot_performance" =>
        LET logged == LoggedFor(args.spot_name)
            total == Cardinality(logged)
            successful == Cardinality({ s \in logged : s.rating >= 4 })
        IN  /\ ret.exc = "none"
            /\ Val(ret.value).total_sessions = total
            /\ total > 0 =>
                   /\ Val(ret.value).success_rate = Round(1000 * successful, total)
                   /\ Val(ret.value).success_rate \in 0..1000
            /\ total = 0 =>
                   /\ Val(ret.value).average_rating = 0
                   /\ Val(ret.value).average_surf_score = 0
                   /\ Val(ret.value).success_rate = 0

\* C20: compare_spots, given a list of spot names, responds 404 exactly when
\* one of the names matches no stored spot, and when every name is stored it
\* returns one comparison entry per requested spot.
C20_CompareNotFoundIs404 ==
    (fn = "compare_spots" /\ ~IsNone(args.spots) /\ Val(args.spots) # "") =>
        LET spot_names == SplitStrip(Val(args.spots))
            unknown == { i \in 1..Len(spot_names) :
                           ~\E p \in spots : p.name = spot_names[i] }
        IN  /\ response = 404 <=> unknown # {}
            /\ unknown = {} =>
                   /\ response = 200
                   /\ ret.exc = "none"
                   /\ Len(Val(ret.value)) = Len(spot_names)

\* C27: when a recommendations, performance or compare request has been
\* answered, with 200 or with an error, the SurfRecommender it created and
\* the database session of that recommender are closed.
C27_RecommendersClosed ==
    recommenders = 0

----------------------------------------------------------------------------
(* The simulated ranking over tables with NULL columns *)

\* C21: whatever rows surf_spots holds, rows with a NULL description or a
\* NULL orientation included, and whatever the target date,
\* get_spot_recommendations returns without raising a list in non-increasing
\* score order.
C21_RankingTotalOverNullColumns ==
    fn = "get_spot_recommendations" =>
        /\ ret.exc = "none"
        /\ LET list == Val(ret.value) IN
           \A p, q \in 1..Len(list) :
               p < q => list[p].surf_score >= list[q].surf_score

----------------------------------------------------------------------------
(* The weather collaborators' choice of the entry for a target time.
   Instants are seconds since an epoch; a datetime is a wall-clock reading
   with an optional offset from UTC (tzinfo); the 'time' of a timeseries entry
   is an ISO string, given by its wall-clock reading and its zone suffix. *)

Hour == 3600

\* the offset of the zone suffix of an ISO string
ZoneOffset(zone) == IF zone = "Z" THEN 0 ELSE Hour

\* datetime.fromisoformat(entry['time'].replace('Z', '+00:00')), as an instant
fromisoformat(time) ==
    IF time.zone = "bad" THEN Raise("ValueError")
    ELSE Return(time.wall - ZoneOffset(time.zone))

\* target_time.replace(tzinfo=utc) when naive, astimezone(utc) otherwise
ToUtc(target_time) ==
    IF IsNone(target_time.tzinfo) THEN target_time.wall
    ELSE target_time.wall - Val(target_time.tzinfo)

\* nothing chosen yet: best_match = None, min_time_diff = float('inf')
NoMatch == [ best_match |-> None, min_time_diff |-> None ]

\* the loop over the timeseries, from entry i on
RECURSIVE ClosestLoop(_, _, _, _)
ClosestLoop(timeseries, target_time_utc, i, match) ==
    IF i > Len(timeseries) THEN match
    ELSE LET entry == timeseries[i]
             entry_time == fromisoformat(entry.time)
         IN  IF entry_time.exc # "none"
             THEN ClosestLoop(timeseries, target_time_utc, i + 1, match)
             ELSE LET time_diff == Abs(Val(entry_time.value) - target_time_utc)
                  IN  IF \/ IsNone(match.min_time_diff)
                         \/ time_diff < Val(match.min_time_diff)
                      THEN ClosestLoop(timeseries, target_time_utc, i + 1,
                                       [ best_match |-> Some(entry),
                                         min_time_diff |-> Some(time_diff) ])
                      ELSE ClosestLoop(timeseries, target_time_utc, i + 1, match)

\* HybridSurfService._find_closest_time_entry
_find_closest_time_entry(timeseries, target_time) ==
    ClosestLoop(timeseries, ToUtc(target_time), 1, NoMatch).best_match

\* YRWeatherService._extract_weather_for_time; None stands for the empty dict
_extract_weather_for_time(yr_data, target_time) ==
    IF Len(yr_data.timeseries) = 0 THEN None
    ELSE LET match == ClosestLoop(yr_data.timeseries, ToUtc(target_time), 1, NoMatch)
         IN  IF IsNone(match.best_match) THEN None
             ELSE Some([ wind_speed |-> Val(match.best_match).wind_speed,
                         timestamp |-> Val(match.best_match).time,
                         lead_time |-> Val(match.min_time_diff) ])

\* OpenWeatherMarineService._extract_current_data and _extract_hourly_data
_extract_current_data(current) ==
    [ wind_speed |-> current.wind_speed, timestamp |-> current.dt,
      source |-> "openweathermap_current" ]
_extract_hourly_data(hourly_data) ==
    [ wind_speed |-> hourly_data.wind_speed, timestamp |-> hourly_data.dt,
      source |-> "openweathermap_hourly" ]

\* the loop over the hourly forecasts, from entry i on
RECURSIVE HourlyLoop(_, _, _, _)
HourlyLoop(hourly, target_timestamp, i, match) ==
    IF i > Len(hourly) THEN match
    ELSE LET time_diff == Abs(hourly[i].dt - target_timestamp)
         IN  IF IsNone(match.min_time_diff) \/ time_diff < Val(match.min_time_diff)
             THEN HourlyLoop(hourly, target_timestamp, i + 1,
                             [ best_match |-> Some(hourly[i]),
                               min_time_diff |-> Some(time_diff) ])
             ELSE HourlyLoop(hourly, target_timestamp, i + 1, match)

\* OpenWeatherMarineService._extract_data_for_time; owm_data.current is None
\* when the response has no 'current', and then current.get('dt', 0) is 0
_extract_data_for_time(owm_data, target_time) ==
    LET target_timestamp == ToUtc(target_time)
        current == IF IsNone(owm_data.current)
                   THEN [ dt |-> 0, wind_speed |-> None ]
                   ELSE Val(owm_data.current)
    IN  IF Abs(current.dt - target_timestamp) <= Hour
        THEN Some(_extract_current_data(current))
        ELSE LET match == HourlyLoop(owm_data.hourly, target_timestamp, 1, NoMatch)
             IN  IF IsNone(match.best_match) THEN None
                 ELSE Some(_extract_hourly_data(Val(match.best_match)))

\* the longest timeseries and hourly list drawn
MaxEntries == 3

SeqsUpTo(S, most) == UNION { [ 1..n -> S ] : n \in 0..most }

\* 'time' strings: two entries an hour either side of noon, one at noon
\* written with an offset, one that does not parse
EntryTimes ==
    { [ wall |-> 11 * Hour, zone |-> "Z" ], [ wall |-> 13 * Hour, zone |-> "Z" ],
      [ wall |-> 13 * Hour, zone |-> "+01:00" ], [ wall |-> 12 * Hour, zone |-> "bad" ] }

\* target times: naive, aware, and half way between two entries
TargetTimes ==
    { [ wall |-> 12 * Hour, tzinfo |-> None ],
      [ wall |-> 12 * Hour, tzinfo |-> Some(Hour) ],
      [ wall |-> 12 * Hour + Hour \div 2, tzinfo |-> None ] }

\* the timeseries drawn; the wind speed of an entry is its position
TimeseriesInputs ==
    { List([ i \in DOMAIN t |-> [ time |-> t[i], wind_speed |-> Some(i) ] ]) :
        t \in SeqsUpTo(EntryTimes, MaxEntries) }

\* 'dt' of the current observation and of the hourly forecasts
CurrentTimes == { 12 * Hour - 3000, 12 * Hour - 4000, 10 * Hour }
HourlyTimes == { 12 * Hour, 14 * Hour, 9 * Hour }

\* the One Call responses drawn; the wind speed of the current observation
\* is 0, that of an hourly forecast its position
OwmInputs ==
    { [ current |-> c,
        hourly |-> List([ i \in DOMAIN h |-> [ dt |-> h[i], wind_speed |-> Some(i) ] ]) ] :
        c \in Opt({ [ dt |-> d, wind_speed |-> Some(0) ] : d \in CurrentTimes }),
        h \in SeqsUpTo(HourlyTimes, MaxEntries) }

InitClosest ==
    /\ NoDb
    /\ NoSample
    /\ \/ args \in [ timeseries : TimeseriesInputs, target_time : TargetTimes ]
       \/ args \in [ owm_data : OwmInputs, target_time : TargetTimes ]
    /\ fn = ""
    /\ ret = NoCall
    /\ NoRuns

CallFindClosestTimeEntry ==
    /\ "timeseries" \in DOMAIN args
    /\ fn' = "_find_closest_time_entry"
    /\ ret' = Return(_find_closest_time_entry(args.timeseries, args.target_time))
    /\ UNCHANGED << argVars, dbVars, runVars >>

CallExtractWeatherForTime ==
    /\ "timeseries" \in DOMAIN args
    /\ fn' = "_extract_weather_for_time"
    /\ ret' = Return(_extract_weather_for_time([ timeseries |-> args.timeseries ],
                                               args.target_time))
    /\ UNCHANGED << argVars, dbVars, runVars >>

CallExtractDataForTime ==
    /\ "owm_data" \in DOMAIN args
    /\ fn' = "_extract_data_for_time"
    /\ ret' = Return(_extract_data_for_time(args.owm_data, args.target_time))
    /\ UNCHANGED << argVars, dbVars, runVars >>

NextClosest ==
    \/ CallFindClosestTimeEntry
    \/ CallExtractWeatherForTime
    \/ CallExtractDataForTime

SpecClosest == InitClosest /\ [][NextClosest]_vars

\* the first position of a list of distances that holds the smallest one
\* (0 when the list is empty)
FirstSmallest(distances) ==
    IF Len(distances) = 0 THEN 0
    ELSE CHOOSE i \in 1..Len(distances) :
             /\ \A j \in 1..Len(distances) : distances[i] <= distances[j]
             /\ \A j \in 1..(i - 1) : distances[j] > distances[i]

\* the entries of the timeseries whose time parses, in order
Timed(timeseries) ==
    SelectSeq(timeseries, LAMBDA entry : fromisoformat(entry.time).exc = "none")

\* the entry of the timeseries closest to the target time, None without one
ClosestTimed(timeseries, target_time) ==
    LET timed == Timed(timeseries)
        place == FirstSmallest(List([ i \in 1..Len(timed) |->
                     Abs(Val(fromisoformat(timed[i].time).value) - ToUtc(target_time)) ]))
    IN  IF place = 0 THEN None ELSE Some(timed[place])

\* the current observation, when the response has one, followed by the hourly
\* forecasts, each as the data extracted from it
Observations(owm_data) ==
    (IF IsNone(owm_data.current) THEN << >>
     ELSE << _extract_current_data(Val(owm_data.current)) >>)
    \o List([ i \in 1..Len(owm_data.hourly) |-> _extract_hourly_data(owm_data.hourly[i]) ])

\* C22: each collaborator returns the data of the entry whose timestamp is
\* closest to the target time among all the entries of the response, the
\* first listed winning ties: over the timeseries for the YR and hybrid
\* services, over the current observation followed by the hourly forecasts
\* for the OpenWeather service.
C22_ClosestEntrySelected ==
    /\ fn = "_find_closest_time_entry" =>
           Val(ret.value) = ClosestTimed(args.timeseries, args.target_time)
    /\ fn = "_extract_weather_for_time" =>
           LET closest == ClosestTimed(args.timeseries, args.target_time) IN
           IF IsNone(closest) THEN IsNone(Val(ret.value))
           ELSE /\ ~IsNone(Val(ret.value))
                /\ Val(Val(ret.value)).wind_speed = Val(closest).wind_speed
                /\ Val(Val(ret.value)).timestamp = Val(closest).time
    /\ fn = "_extract_data_for_time" =>
           LET observations == Observations(args.owm_data)
               place == FirstSmallest(List([ i \in 1..Len(observations) |->
                            Abs(observations[i].timestamp - ToUtc(args.target_time)) ]))
           IN  IF place = 0 THEN IsNone(Val(ret.value))
               ELSE Val(ret.value) = Some(observations[place])

----------------------------------------------------------------------------
(* The weighted scorer while the wall clock runs: args.hour is what
   datetime.now().hour reads at the moment of the step *)

\* the hour after
NextHour(hour) == (hour + 1) % 24

\* the wall clock passes into the next hour
Tick ==
    /\ "hour" \in DOMAIN args
    /\ args' = [args EXCEPT !.hour = NextHour(args.hour)]
    /\ UNCHANGED << sampleVars, dbVars, fn, ret, runVars >>

\* the readings of one get_recommendations call during which the hour changes
\* after the first scored profiles have been scored
ClockTicksAfter(hour, scored) ==
    List([ i \in 1..Len(SpotOrder) |-> IF i <= scored THEN hour ELSE NextHour(hour) ])

\* get_recommendations called so late in the hour that the hour may change
\* between two profiles of its loop
CallGetRecommendationsOnTheHour ==
    \E scored \in 1..Len(SpotOrder) :
        /\ "weather" \in DOMAIN args
        /\ args' = [args EXCEPT !.spot_name = "",
                                !.hour = ClockTicksAfter(args.hour, scored)[Len(SpotOrder)]]
        /\ fn' = "get_recommendations"
        /\ ret' = get_recommendations(args.weather, ClockTicksAfter(args.hour, scored))
        /\ UNCHANGED << sampleVars, dbVars, runVars >>

NextClock ==
    \/ CallCalculateSpotScore
    \/ CallGetRecommendationsOnTheHour
    \/ Tick

\* the centred sample of every profile without an air temperature, at every
\* hour of the day
InitClock ==
    /\ args \in { [ weather |-> CentredSample(spot_name, Missing),
                    hour |-> hour, spot_name |-> "" ] :
                  spot_name \in SpotNamesBuiltIn, hour \in 0..23 }
    /\ NoSample
    /\ fn = ""
    /\ ret = NoCall
    /\ NoRuns
    /\ NoDb

SpecClock == InitClock /\ [][NextClock]_vars

\* C23: the score returned for a sample and a profile is the score the same
\* sample and profile get at every hour of the wall clock, and within one
\* get_recommendations call every profile is scored with the time-of-day
\* bonus of one and the same hour.
C23_ScoreIndependentOfClock ==
    /\ (fn = "_calculate_spot_score" /\ ret.exc = "none") =>
           \A hour \in 0..23 :
               ret = _calculate_spot_score(args.weather, hour,
                                           spot_preferences[args.spot_name])
    /\ (fn = "get_recommendations" /\ ret.exc = "none") =>
           \E hour \in 0..23 :
               ret = get_recommendations(args.weather, ClockStill(hour))

----------------------------------------------------------------------------
(* The spot and session endpoints of main.py, statement by statement.
   Each request works on a database session of its own (get_db): its queries
   read the tables as they are when the statement runs, and db.commit()
   writes in one transaction. requests maps the id of every request being
   handled to what the handler holds between two statements. *)

\* the most requests handled at the same time
MaxInFlight == 2

\* the rowid SQLite gives an inserted row: INTEGER PRIMARY KEY without
\* AUTOINCREMENT is one more than the largest id stored
NextId(rows) ==
    IF rows = {} THEN 1
    ELSE 1 + (CHOOSE m \in { r.id : r \in rows } : \A r \in rows : r.id <= m)

\* the request ids not in use
FreeIds(most) == { id \in 1..most : id \notin DOMAIN requests }

\* the handler of a new request proceeds to its next statement, holding held
Proceed(id, held) == requests' = (id :> held) @@ requests

\* the handler of request id has returned or raised
Finish(id) == requests' = [ other \in DOMAIN requests \ {id} |-> requests[other] ]

\* a column name without its UNIQUE constraint
NameUnconstrained(name, id) == TRUE

\* UNIQUE (name) as the transaction of a commit sees it: no other row has it
NameFree(name, id) == ~\E other \in spots : other.name = name /\ other.id # id

\* the requests being handled by the handler op
Pending(op) == { id \in DOMAIN requests : requests[id].op = op }

\* create_spot up to the commit: the query for an existing spot of that name
BeginCreateSpot(most, spot_data) ==
    \E id \in FreeIds(most) :
        /\ id = CHOOSE least \in FreeIds(most) : \A f \in FreeIds(most) : least <= f
        /\ Cardinality(spots) + Cardinality(Pending("create_spot")) < MaxSpots
        /\ IF \E existing_spot \in spots : existing_spot.name = spot_data.name
           THEN /\ response' = 400
                /\ UNCHANGED requests
           ELSE /\ Proceed(id, [ op |-> "create_spot", spot_data |-> spot_data ])
                /\ UNCHANGED response
        /\ UNCHANGED << spots, sessions, next_spot_id, next_session_id,
                        argVars, fn, ret, recommenders >>

\* db.add(new_spot); db.commit(): IntegrityError when the name is stored by now
CommitCreateSpot(id) ==
    /\ id \in DOMAIN requests
    /\ requests[id].op = "create_spot"
    /\ LET spot_data == requests[id].spot_data IN
       IF ~NameFree(spot_data.name, 0)
       THEN /\ response' = 500
            /\ UNCHANGED << spots, next_spot_id >>
       ELSE /\ spots' = spots \cup
                    { [ id |-> NextId(spots), name |-> spot_data.name,
                        latitude |-> spot_data.latitude,
                        longitude |-> spot_data.longitude,
                        orientation |-> Some(spot_data.orientation),
                        description |-> spot_data.description ] }
            /\ next_spot_id' = NextId(spots')
            /\ response' = 200
    /\ Finish(id)
    /\ UNCHANGED << sessions, next_session_id, argVars, fn, ret, recommenders >>

\* the columns update_spot may assign
SpotFields == { "name", "latitude", "longitude", "orientation", "description" }

\* assignments that stop after the name
AssignedNameOnly(spot, spot_data) ==
    [ spot EXCEPT !.name = IF IsNone(spot_data.name) THEN spot.name
                           ELSE Val(spot_data.name) ]

\* the loaded spot after the assignments of update_spot: a field of the
\* request that is None is not assigned
Assigned(spot, spot_data) ==
    [ id |-> spot.id,
      name |-> IF IsNone(spot_data.name) THEN spot.name ELSE Val(spot_data.name),
      latitude |-> IF IsNone(spot_data.latitude) THEN spot.latitude
                   ELSE Val(spot_data.latitude),
      longitude |-> IF IsNone(spot_data.longitude) THEN spot.longitude
                    ELSE Val(spot_data.longitude),
      orientation |-> IF IsNone(spot_data.orientation) THEN spot.orientation
                      ELSE spot_data.orientation,
      description |-> IF IsNone(spot_data.description) THEN spot.description
                      ELSE spot_data.description ]

\* the columns the unit of work writes: those whose value differs from the
\* value loaded
Modified(spot, spot_data) ==
    { field \in SpotFields : Assigned(spot, spot_data)[field] # spot[field] }

\* update_spot up to its second statement: the query for the spot
BeginUpdateSpot(most, spot_id, spot_data) ==
    \E id \in FreeIds(most) :
        /\ id = CHOOSE least \in FreeIds(most) : \A f \in FreeIds(most) : least <= f
        /\ IF ~\E spot \in spots : spot.id = spot_id
           THEN /\ response' = 404
                /\ UNCHANGED requests
           ELSE LET spot == CHOOSE sp \in spots : sp.id = spot_id IN
                /\ Proceed(id, [ op |-> "update_spot",
                                 pc |-> IF /\ ~IsNone(spot_data.name)
                                           /\ Val(spot_data.name) # spot.name
                                        THEN "existing_spot" ELSE "commit",
                                 spot |-> spot, spot_data |-> spot_data ])
                /\ UNCHANGED response
        /\ UNCHANGED << spots, sessions, next_spot_id, next_session_id,
                        argVars, fn, ret, recommenders >>

\* the query for another spot of the new name
ExistingSpotUpdateSpot(id) ==
    /\ id \in DOMAIN requests
    /\ requests[id].op = "update_spot"
    /\ requests[id].pc = "existing_spot"
    /\ IF \E existing_spot \in spots :
              existing_spot.name = Val(requests[id].spot_data.name)
       THEN /\ response' = 400
            /\ Finish(id)
       ELSE /\ requests' = [requests EXCEPT ![id].pc = "commit"]
            /\ UNCHANGED response
    /\ UNCHANGED << spots, sessions, next_spot_id, next_session_id,
                    argVars, fn, ret, recommenders >>

\* the assignments and db.commit(): UPDATE surf_spots SET the modified columns
\* WHERE id = spot.id. StaleDataError when no row has the id any more,
\* IntegrityError when the new name is stored on another row by now.
CommitUpdateSpot(id) ==
    /\ id \in DOMAIN requests
    /\ requests[id].op = "update_spot"
    /\ requests[id].pc = "commit"
    /\ LET spot == requests[id].spot
           spot_data == requests[id].spot_data
           assigned == Assigned(spot, spot_data)
           modified == Modified(spot, spot_data)
       IN  IF ~\E row \in spots : row.id = spot.id
           THEN /\ response' = 500
                /\ UNCHANGED spots
           ELSE LET row == CHOOSE r \in spots : r.id = spot.id IN
                IF "name" \in modified /\ ~NameFree(assigned.name, spot.id)
                THEN /\ response' = 500
                     /\ UNCHANGED spots
                ELSE /\ spots' = (spots \ {row}) \cup
                             { [ field \in DOMAIN row |->
                                   IF field \in modified THEN assigned[field]
                                   ELSE row[field] ] }
                     /\ response' = 200
    /\ Finish(id)
    /\ UNCHANGED << sessions, next_spot_id, next_session_id, argVars, fn, ret,
                    recommenders >>

\* delete_spot up to its second statement: the query for the spot
BeginDeleteSpot(most, spot_id) ==
    \E id \in FreeIds(most) :
        /\ id = CHOOSE least \in FreeIds(most) : \A f \in FreeIds(most) : least <= f
        /\ IF ~\E spot \in spots : spot.id = spot_id
           THEN /\ response' = 404
                /\ UNCHANGED requests
           ELSE /\ Proceed(id, [ op |-> "delete_spot", pc |-> "sessions_count",
                                 spot |-> CHOOSE sp \in spots : sp.id = spot_id ])
                /\ UNCHANGED response
        /\ UNCHANGED << spots, sessions, next_spot_id, next_session_id,
                        argVars, fn, ret, recommenders >>

\* the count of the sessions logged at the spot
SessionsCountDeleteSpot(id) ==
    /\ id \in DOMAIN requests
    /\ requests[id].op = "delete_spot"
    /\ requests[id].pc = "sessions_count"
    /\ IF \E session \in sessions : session.spot_id = requests[id].spot.id
       THEN /\ response' = 400
            /\ Finish(id)
       ELSE /\ requests' = [requests EXCEPT ![id].pc = "commit"]
            /\ UNCHANGED response
    /\ UNCHANGED << spots, sessions, next_spot_id, next_session_id,
                    argVars, fn, ret, recommenders >>

\* db.delete(spot); db.commit(): DELETE FROM surf_spots WHERE id = spot.id
CommitDeleteSpot(id) ==
    /\ id \in DOMAIN requests
    /\ requests[id].op = "delete_spot"
    /\ requests[id].pc = "commit"
    /\ spots' = { row \in spots : row.id # requests[id].spot.id }
    /\ next_spot_id' = NextId(spots')
    /\ response' = 200
    /\ Finish(id)
    /\ UNCHANGED << sessions, next_session_id, argVars, fn, ret, recommenders >>

\* create_session up to the call of the weather service: the query for the spot
BeginCreateSession(most, session_data) ==
    \E id \in FreeIds(most) :
        /\ id = CHOOSE least \in FreeIds(most) : \A f \in FreeIds(most) : least <= f
        /\ Cardinality(sessions) + Cardinality(Pending("create_session")) < MaxSessions
        /\ IF ~\E spot \in spots : spot.id = session_data.spot_id
           THEN /\ response' = 404
                /\ UNCHANGED requests
           ELSE /\ Proceed(id, [ op |-> "create_session", pc |-> "surf_data",
                                 spot |-> CHOOSE sp \in spots :
                                              sp.id = session_data.spot_id,
                                 session_data |-> session_data,
                                 surf_data |-> None ])
                /\ UNCHANGED response
        /\ UNCHANGED << spots, sessions, next_spot_id, next_session_id,
                        argVars, fn, ret, recommenders >>

\* surf_service.get_complete_surf_data returns: the HTTP calls to the
\* providers are over
SurfDataCreateSession(id, surf_data) ==
    /\ id \in DOMAIN requests
    /\ requests[id].op = "create_session"
    /\ requests[id].pc = "surf_data"
    /\ requests' = [requests EXCEPT ![id].pc = "commit",
                                    ![id].surf_data = Some(surf_data)]
    /\ UNCHANGED << dbVars, argVars, fn, ret, recommenders >>

\* db.add(session); db.commit(): spot_id is a plain Integer column, so the
\* INSERT does not look at surf_spots
CommitCreateSession(id) ==
    /\ id \in DOMAIN requests
    /\ requests[id].op = "create_session"
    /\ requests[id].pc = "commit"
    /\ sessions' = sessions \cup
           { SessionRow(NextId(sessions), requests[id].spot,
                        requests[id].session_data.rating,
                        Val(requests[id].surf_data)) }
    /\ next_session_id' = NextId(sessions')
    /\ response' = 200
    /\ Finish(id)
    /\ UNCHANGED << spots, next_spot_id, argVars, fn, ret, recommenders >>

\* delete_session up to the commit: the query for the session
BeginDeleteSession(most, session_id) ==
    \E id \in FreeIds(most) :
        /\ id = CHOOSE least \in FreeIds(most) : \A f \in FreeIds(most) : least <= f
        /\ IF ~\E session \in sessions : session.id = session_id
           THEN /\ response' = 404
                /\ UNCHANGED requests
           ELSE /\ Proceed(id, [ op |-> "delete_session",
                                 session |-> CHOOSE s \in sessions : s.id = session_id ])
                /\ UNCHANGED response
        /\ UNCHANGED << spots, sessions, next_spot_id, next_session_id,
                        argVars, fn, ret, recommenders >>

\* db.delete(session); db.commit()
CommitDeleteSession(id) ==
    /\ id \in DOMAIN requests
    /\ requests[id].op = "delete_session"
    /\ sessions' = { row \in sessions : row.id # requests[id].session.id }
    /\ next_session_id' = NextId(sessions')
    /\ response' = 200
    /\ Finish(id)
    /\ UNCHANGED << spots, next_spot_id, argVars, fn, ret, recommenders >>

----------------------------------------------------------------------------
(* The spot endpoints under concurrent requests *)

\* the bodies of the POST /api/spots requests drawn
CreateInputs ==
    [ name : SpotNames, latitude : Latitudes, longitude : Longitudes,
      orientation : { 270 }, description : Descriptions ]

\* the bodies of the PUT /api/spots/{id} requests drawn: every field is
\* optional
UpdateInputs ==
    [ name : Opt(SpotNames), latitude : Opt({ 59 }), longitude : { None },
      orientation : Opt({ 90 }), description : { None } ]

CreateSpotBegins ==
    \E spot_data \in CreateInputs : BeginCreateSpot(MaxInFlight, spot_data)
CreateSpotCommits == \E id \in 1..MaxInFlight : CommitCreateSpot(id)
\* those that leave the orientation alone
RenameInputs == { spot_data \in UpdateInputs : IsNone(spot_data.orientation) }

UpdateSpotBegins ==
    \E spot_id \in 1..MaxSpots, spot_data \in RenameInputs :
        BeginUpdateSpot(MaxInFlight, spot_id, spot_data)
UpdateSpotQueriesName == \E id \in 1..MaxInFlight : ExistingSpotUpdateSpot(id)
UpdateSpotCommits == \E id \in 1..MaxInFlight : CommitUpdateSpot(id)
DeleteSpotBegins == \E spot_id \in 1..MaxSpots : BeginDeleteSpot(MaxInFlight, spot_id)
DeleteSpotCounts == \E id \in 1..MaxInFlight : SessionsCountDeleteSpot(id)
DeleteSpotCommits == \E id \in 1..MaxInFlight : CommitDeleteSpot(id)

NextSpots ==
    \/ CreateSpotBegins
    \/ CreateSpotCommits
    \/ UpdateSpotBegins
    \/ UpdateSpotQueriesName
    \/ UpdateSpotCommits
    \/ DeleteSpotBegins
    \/ DeleteSpotCounts
    \/ DeleteSpotCommits

SpecSpots == Init /\ [][NextSpots]_vars

\* request id is a create, or a rename (an update whose name differs from the
\* name of the spot it loaded), and the name it is about to store is held
\* by another row
Duplicating(id) ==
    \/ /\ requests[id].op = "create_spot"
       /\ \E other \in spots : other.name = requests[id].spot_data.name
    \/ /\ requests[id].op = "update_spot"
       /\ requests[id].pc = "commit"
       /\ "name" \in Modified(requests[id].spot, requests[id].spot_data)
       /\ \E other \in spots : /\ other.name = Val(requests[id].spot_data.name)
                               /\ other.id # requests[id].spot.id

\* C24: whatever way create_spot, update_spot and delete_spot requests
\* interleave, no two rows of surf_spots ever carry the same name, and a
\* create or a rename that would store a name another row holds is rejected
\* and leaves surf_spots as it was.
C24_SpotNamesUnique ==
    /\ [](\A one, other \in spots : one.name = other.name => one = other)
    /\ [][ \A id \in DOMAIN requests :
               (id \notin DOMAIN requests' /\ Duplicating(id)) =>
                   (response' # 200 /\ spots' = spots) ]_vars
    /\ [][ spots' # spots => response' = 200 ]_vars

\* Bore and Orre are stored and the last request, a create or a rename to a
\* name in use, was refused with 400
C24_Witness ==
    /\ response = 400
    /\ { spot.name : spot \in spots } = SpotNames
    /\ requests = << >>

----------------------------------------------------------------------------
(* The session endpoints and delete_spot under concurrent requests *)

\* the bodies of the POST /api/sessions requests drawn
SessionInputs == [ spot_id : 1..MaxSpots, rating : { 4 } ]

\* what get_complete_surf_data returns to them: a full sample
FetchedSurfData ==
    { surf_data \in SurfData :
        /\ surf_data.wave_direction = Some(270)
        /\ \A key \in DOMAIN surf_data : ~IsNone(surf_data[key]) }

CreateSessionBegins ==
    \E session_data \in SessionInputs : BeginCreateSession(MaxInFlight, session_data)
CreateSessionFetches ==
    \E id \in 1..MaxInFlight, surf_data \in FetchedSurfData :
        SurfDataCreateSession(id, surf_data)
CreateSessionCommits == \E id \in 1..MaxInFlight : CommitCreateSession(id)
DeleteSessionBegins ==
    \E session_id \in 1..MaxSessions : BeginDeleteSession(MaxInFlight, session_id)
DeleteSessionCommits == \E id \in 1..MaxInFlight : CommitDeleteSession(id)

NextSessions ==
    \/ CreateSpotBegins
    \/ CreateSpotCommits
    \/ CreateSessionBegins
    \/ CreateSessionFetches
    \/ CreateSessionCommits
    \/ DeleteSessionBegins
    \/ DeleteSessionCommits
    \/ DeleteSpotBegins
    \/ DeleteSpotCounts
    \/ DeleteSpotCommits

SpecSessions == Init /\ [][NextSessions]_vars

\* C26: whatever way create_session, delete_session and delete_spot requests
\* interleave, the spot_id of every row of surf_sessions is the id of a row of
\* surf_spots.
C26_SessionsReferToStoredSpots ==
    \A session \in sessions : \E spot \in spots : spot.id = session.spot_id

----------------------------------------------------------------------------
(* The spot endpoints, one request at a time: a request is taken up only
   when the one before has been answered *)

CreateSpotAlone == \E spot_data \in CreateInputs : BeginCreateSpot(1, spot_data)
UpdateSpotAlone ==
    \E spot_id \in 1..MaxSpots, spot_data \in UpdateInputs :
        BeginUpdateSpot(1, spot_id, spot_data)
DeleteSpotAlone == \E spot_id \in 1..MaxSpots : BeginDeleteSpot(1, spot_id)

NextOneAtATime ==
    \/ CreateSpotAlone
    \/ CreateSpotCommits
    \/ UpdateSpotAlone
    \/ UpdateSpotQueriesName
    \/ UpdateSpotCommits
    \/ DeleteSpotAlone
    \/ DeleteSpotCounts
    \/ DeleteSpotCommits

SpecOneAtATime == Init /\ [][NextOneAtATime]_vars

\* what a field of a row is after an update that supplied value for it
Updated(old, value) == IF IsNone(value) THEN old ELSE Val(value)

\* C30: an update_spot request that is answered 200 leaves every other row
\* as it was and, in the row of its spot id, sets each field supplied with a
\* non-null value to that value and keeps every other field; an update_spot
\* request that is refused (unknown id, name held by another spot) changes no
\* field of any row, whatever other fields it supplied.
C30_UpdateChangesSuppliedFieldsOnly ==
    /\ [][ \A id \in DOMAIN requests :
             (requests[id].op = "update_spot" /\ id \notin DOMAIN requests') =>
                 LET spot_data == requests[id].spot_data
                     spot_id == requests[id].spot.id
                 IN  IF response' # 200 THEN spots' = spots
                     ELSE /\ { row \in spots' : row.id # spot_id } =
                             { row \in spots : row.id # spot_id }
                          /\ \A old \in spots : old.id = spot_id =>
                               \E new \in spots' :
                                 /\ new.id = spot_id
                                 /\ new.name = Updated(old.name, spot_data.name)
                                 /\ new.latitude =
                                        Updated(old.latitude, spot_data.latitude)
                                 /\ new.longitude =
                                        Updated(old.longitude, spot_data.longitude)
                                 /\ new.orientation =
                                        IF IsNone(spot_data.orientation)
                                        THEN old.orientation
                                        ELSE spot_data.orientation
                                 /\ new.description =
                                        IF IsNone(spot_data.description)
                                        THEN old.description
                                        ELSE spot_data.description ]_vars
    /\ [][ (requests' = requests /\ response' \in { 400, 404 }) => spots' = spots ]_vars

\* Bore has been moved to latitude 59 and turned to 90 degrees by an update
\* that supplied no name, and Orre is as it was created
C30_Witness ==
    /\ response = 200
    /\ requests = << >>
    /\ \E spot \in spots : /\ spot.name = "Bore"
                           /\ spot.latitude = 59
                           /\ spot.orientation = Some(90)
    /\ \E spot \in spots : /\ spot.name = "Orre"
                           /\ spot.latitude = 58
                           /\ spot.orientation = Some(270)

----------------------------------------------------------------------------
(* The offshore test of the simulated recommender beside the geometry
   utility, on the same wind direction and spot orientation *)

\* self._is_offshore_wind(wind_direction, spot.orientation) on whole degrees;
\* abs(None - x) and None + 180 raise TypeError
CallIsOffshoreWind ==
    /\ fn' = "_is_offshore_wind"
    /\ ret' = IF IsNone(wind_direction) \/ IsNone(spot_orientation)
              THEN Raise("TypeError")
              ELSE Return(_is_offshore_wind(Val(wind_direction) * Million,
                                            Val(spot_orientation) * Million))
    /\ UNCHANGED << argVars, dbVars, runVars >>

NextFlags ==
    \/ CallIsOffshoreWind
    \/ CallCalculateWindOffshore

SpecFlags == InitOffshore /\ [][NextFlags]_vars

\* C28: for a wind direction and a spot orientation in [0, 360) the flag of
\* _is_offshore_wind is the flag of calculate_wind_offshore.
C28_OffshoreFlagsAgree ==
    (/\ fn = "_is_offshore_wind"
     /\ InRange(wind_direction)
     /\ InRange(spot_orientation)) =>
        /\ ret.exc = "none"
        /\ Val(ret.value) = calculate_wind_offshore(wind_direction, spot_orientation)

----------------------------------------------------------------------------
(* HybridSurfService.get_complete_surf_data over the outcomes of its three
   providers. A dict is a function from the keys it holds to optional
   values; wave heights are in decimetres, periods in seconds. *)

EmptyDict == << >>

\* d.get(key)
DictGet(d, key) == IF key \in DOMAIN d THEN d[key] ELSE None

\* d.update(other)
DictUpdate(d, other) == other @@ d

\* HybridSurfService._estimate_wave_period
_estimate_wave_period(height) ==
    IF IsNone(height) THEN None
    ELSE IF Val(height) < 5 THEN Some(6)
    ELSE IF Val(height) < 10 THEN Some(8)
    ELSE IF Val(height) < 15 THEN Some(10)
    ELSE IF Val(height) < 20 THEN Some(12)
    ELSE Some(14)

\* HybridSurfService._extract_stormglass_period; a field of hour_data is the
\* 'sg' value of that parameter, None when the parameter or its 'sg' is absent
_extract_stormglass_period(stormglass_data) ==
    IF Len(stormglass_data.hours) = 0 THEN EmptyDict
    ELSE LET hour_data == stormglass_data.hours[1]
             period == hour_data.wavePeriod
             height == hour_data.waveHeight
             tide_height == hour_data.tideHeight
             period_part ==
                 IF ~IsNone(period)
                 THEN [ wave_period |-> period,
                        wave_period_source |-> Some("stormglass") ]
                 ELSE IF ~IsNone(height)
                 THEN [ wave_period |-> _estimate_wave_period(height),
                        wave_period_source |->
                            Some("estimated_from_stormglass_height") ]
                 ELSE EmptyDict
             tide_part ==
                 IF ~IsNone(tide_height)
                 THEN [ tide_height |-> tide_height, tide_source |-> Some("stormglass") ]
                 ELSE EmptyDict
         IN  DictUpdate(period_part, tide_part)

\* HybridSurfService._get_stormglass_period_data: None when the request or
\* the decoding of its response raised
_get_stormglass_period_data(stormglass) ==
    IF stormglass.exc # "none" THEN None
    ELSE Some(_extract_stormglass_period(Val(stormglass.value)))

\* HybridSurfService._get_data_sources
_get_data_sources(surf_data) ==
    LET listed(key) == IF IsNone(DictGet(surf_data, key)) THEN << >>
                       ELSE << Val(DictGet(surf_data, key)) >>
    IN  listed("weather_source") \o listed("wave_source") \o listed("wave_period_source")

\* HybridSurfService.get_complete_surf_data; weather_data and wave_data are
\* what _get_yr_weather_data and _get_yr_wave_data return (None after a
\* failure), stormglass the outcome of the Stormglass request
get_complete_surf_data(stormglass_api_key, weather_data, wave_data, stormglass) ==
    LET with_weather ==
            IF ~IsNone(weather_data) /\ DOMAIN Val(weather_data) # {}
            THEN DictUpdate(EmptyDict, Val(weather_data)) ELSE EmptyDict
        with_wave ==
            IF ~IsNone(wave_data) /\ DOMAIN Val(wave_data) # {}
            THEN DictUpdate(with_weather, Val(wave_data)) ELSE with_weather
        estimated ==
            DictUpdate(with_wave,
                       [ wave_period |->
                             _estimate_wave_period(DictGet(with_wave, "wave_height")),
                         wave_period_source |-> Some("estimated") ])
        period_data == _get_stormglass_period_data(stormglass)
        with_period ==
            IF stormglass_api_key # "YOUR_API_KEY_HERE"
            THEN IF ~IsNone(period_data) /\ DOMAIN Val(period_data) # {}
                 THEN DictUpdate(with_wave, Val(period_data))
                 ELSE estimated
            ELSE estimated
    IN  DictUpdate(with_period,
                   [ data_sources |-> Some(_get_data_sources(with_period)) ])

\* the key the constructor falls back on, and the placeholder the method tests for
ApiKeys == { "YOUR_API_KEY_HERE", "key" }

\* what _get_yr_weather_data returns: None, nothing for the time, or a reading
WeatherOutcomes ==
    { None, Some(EmptyDict),
      Some([ wind_speed |-> Some(5), weather_source |-> Some("yr") ]) }

\* wave heights on both sides of every threshold of the estimate
HybridHeights == { 4, 5, 12, 20 }

\* what _get_yr_wave_data returns: None, nothing for the time, or an entry
\* whose wave height may be null
WaveOutcomes ==
    { None, Some(EmptyDict) } \cup
    { Some([ wave_height |-> height, wave_source |-> Some("yr") ]) :
        height \in Opt(HybridHeights) }

\* the Stormglass request: a failure, a response without hours, or one hour
\* holding any subset of the three parameters asked for
StormglassOutcomes ==
    { Raise("RequestException"), Return([ hours |-> << >> ]) } \cup
    { Return([ hours |-> << hour_data >> ]) :
        hour_data \in [ wavePeriod : Opt({9}), waveHeight : Opt({4, 20}),
                        tideHeight : Opt({3}) ] }

InitHybrid ==
    /\ NoDb
    /\ NoSample
    /\ args \in [ stormglass_api_key : ApiKeys, weather_data : WeatherOutcomes,
                  wave_data : WaveOutcomes, stormglass : StormglassOutcomes ]
    /\ fn = ""
    /\ ret = NoCall
    /\ NoRuns

CallGetCompleteSurfData ==
    /\ fn' = "get_complete_surf_data"
    /\ ret' = Return(get_complete_surf_data(args.stormglass_api_key, args.weather_data,
                                            args.wave_data, args.stormglass))
    /\ UNCHANGED << argVars, dbVars, runVars >>

NextHybrid == CallGetCompleteSurfData

SpecHybrid == InitHybrid /\ [][NextHybrid]_vars

\* the first hour of the Stormglass response, when the service asks
\* Stormglass and the request succeeds with at least one hour
StormglassHour ==
    IF /\ args.stormglass_api_key # "YOUR_API_KEY_HERE"
       /\ args.stormglass.exc = "none"
       /\ Len(Val(args.stormglass.value).hours) > 0
    THEN Some(Val(args.stormglass.value).hours[1])
    ELSE None

\* the names under which a wave period is attributed
PeriodSources == { "stormglass", "estimated", "estimated_from_stormglass_height" }

\* C29: the merged surf data holds a non-null wave_period whenever a wave
\* height was obtained (the Stormglass period when Stormglass supplies one,
\* otherwise the estimate derived from a wave height), and data_sources
\* lists a wave-period source only when a wave_period value is present.
C29_WavePeriodWheneverHeight ==
    fn = "get_complete_surf_data" =>
        LET surf_data == Val(ret.value)
            merged_period == DictGet(surf_data, "wave_period")
            data_sources == Val(DictGet(surf_data, "data_sources"))
            yr_height == IF IsNone(args.wave_data) THEN None
                         ELSE DictGet(Val(args.wave_data), "wave_height")
            sg_period == IF IsNone(StormglassHour) THEN None
                         ELSE Val(StormglassHour).wavePeriod
            sg_height == IF IsNone(StormglassHour) THEN None
                         ELSE Val(StormglassHour).waveHeight
            obtained == ~IsNone(yr_height) \/ ~IsNone(sg_height)
        IN  /\ obtained => ~IsNone(merged_period)
            /\ ~IsNone(sg_period) => merged_period = sg_period
            /\ (IsNone(sg_period) /\ obtained) =>
                   merged_period \in { _estimate_wave_period(yr_height),
                                     _estimate_wave_period(sg_height) } \ { None }
            /\ (\E i \in DOMAIN data_sources : data_sources[i] \in PeriodSources) =>
                   ~IsNone(merged_period)

====
